---- MODULE Spec2Model ----
(***************************************************************************)
(* A model of backend/python/service.py: the snapshot caches behind        *)
(* /games, /teams and /standings, the TTL caches behind /players and       *)
(* /leaders, the source health prober and ranker, and the league           *)
(* classifier.                                                             *)
(*                                                                         *)
(* Time is in whole seconds (the snapshot caches compare int(time.time())).*)
(* Strings whose characters matter (source names, titles, keywords) are    *)
(* tuples of one-character strings, so that substring search, lower-casing *)
(* and key formatting are computed and not assumed.                        *)
(***************************************************************************)
EXTENDS Integers, Sequences, FiniteSets, TLC

(***************************************************************************)
(* Configuration: the defaults of service.py lines 22-27 and 113-124.      *)
(***************************************************************************)
CACHE_TTL_SEC == 30
CACHE_STALE_SEC == 600
HEALTH_TTL_SEC == 120
RETRY_COUNT == 3
\* BACKOFF_BASE_SEC, 0.6 seconds, in tenths of a second
BACKOFF_BASE_SEC == 6
PLAYER_LEADERS_CACHE_TTL_SEC == 900
PLAYER_INDEX_CACHE_TTL_SEC == 3600
PLAYER_PAGE_CACHE_TTL_SEC == 120
TEAM_CACHE_TTL_SEC == 43200
TEAM_CACHE_STALE_SEC == 604800
STANDINGS_CACHE_TTL_SEC == 1800
STANDINGS_CACHE_STALE_SEC == 21600

(***************************************************************************)
(* Bounds of the model.                                                    *)
(***************************************************************************)
\* how many times the clock advances in one behaviour
MaxTicks == 4

\* the largest MAX_HEALTH_CHECKS the environment configures
MaxChecks == 2

\* the most sources an upstream match lists, and the most games of a response
MaxSources == 2
MaxGames == 2

\* how many times the clock advances while the health prober is followed
MaxHealthTicks == 1

\* the longest list the ranker is given
MaxSortLen == 3

\* the most words of a match title
MaxWords == 3

\* the most base URLs in API_BASES
MaxBases == 2

\* the most seasons in the season list of the upstream
MaxCandidates == 3

\* the most teams in the team list of a season
MaxTeams == 2

\* the most entries on the page whose rows are built
MaxRows == 3

\* the most athletes in a player index
MaxAthletes == 23

\* the most matches in the live list and in the all list of a snapshot
MaxMatches == 2

\* the most games in the list a slug is looked up in
MaxSlugGames == 2

\* Python's None
None == "None"

\* None where an HTTP status code is expected
NoStatus == -1

\* request threads of the ThreadingHTTPServer; this specification follows
\* the requests one at a time
Threads == {"t1"}

\* the routes served from a cache; each behaviour puts load on one of them
\* (the caches of different routes are separate objects)
SnapshotRoutes == {"games", "teams", "standings"}
Routes == SnapshotRoutes \cup {"players", "leaders"}

\* messages of the exceptions an upstream fetch can raise (str(exc))
Errors == {"timed out", "HTTP Error 500"}

\* the wall clock at process start: later than every stale window after the
\* epoch, as any real clock is
StartTime == TEAM_CACHE_STALE_SEC + 1

VARIABLES
    now,          \* time.time(), in seconds
    ticks,        \* how often the clock has advanced
    route,        \* the route under load
    cache,        \* GameCache.data / TeamCache.data / StandingsCache.data
    pageCache,    \* PLAYER_PAGE_CACHE[cache_key]
    indexCache,   \* PLAYER_INDEX_CACHE[cache_key]
    leadersCache, \* PLAYER_LEADERS_CACHE[cache_key]
    th,           \* each request thread's position and locals
    resp,         \* each request thread's last HTTP response
    MAX_HEALTH_CHECKS, \* int(os.environ.get('MAX_HEALTH_CHECKS', '10'))
    healthCache,  \* HEALTH_CACHE.data
    hreq,         \* the /games request whose sources are being health-checked
    last,         \* the last annotate_sources call with health: input and result
    call,         \* a call of a function that works on its arguments alone
    net,          \* a fetch_matches call in progress: the fetch_json calls it has made
    fs,           \* the files of DATA_DIR: the games snapshot and its temporary file
    proc,         \* the server process and its GAME_CACHE, from start to crash
    holder,       \* of every lock, the thread that holds it
    shared,       \* GAME_CACHE.data and the StandingsCache objects of one key
    workers,      \* the request threads: the steps of the request and the one at hand
    history,      \* what GAME_CACHE.data was when each update and mark_error ended
    budget,       \* the budget dict of each apply_health_to_games call in progress
    inflight      \* the /games requests with health in progress, one per thread

cacheVars == <<now, ticks, route, cache, pageCache, indexCache, leadersCache, th, resp>>

healthVars == <<MAX_HEALTH_CHECKS, healthCache, hreq, last>>

\* the variables of the caches without the clock
servedVars == <<route, cache, pageCache, indexCache, leadersCache, th, resp>>

\* the variables of the calls followed on their own
fnVars == <<call, net>>

\* the files and the process that writes them
diskVars == <<fs, proc>>

\* the variables of the process followed over its whole life
\* the locks, the shared caches and the threads at work on them
lockVars == <<holder, shared, workers, history>>

\* the concurrent health requests
budgetVars == <<budget, inflight>>

sysVars == <<diskVars, lockVars, budgetVars>>

exceptDisk == <<cacheVars, healthVars, fnVars, lockVars, budgetVars>>
exceptLocks == <<cacheVars, healthVars, fnVars, diskVars, budgetVars>>
exceptBudget == <<servedVars, fnVars, diskVars, lockVars>>

vars == <<cacheVars, healthVars, fnVars, sysVars>>

(***************************************************************************)
(* The snapshot caches (GameCache, TeamCache, StandingsCache).  The cached *)
(* list is kept by its length class: payload 0 is an empty list, a         *)
(* positive payload a non-empty one, and -1 stands for None (no list),     *)
(* which neither __init__ nor update ever stores.                          *)
(***************************************************************************)
EmptyCacheData == [payload |-> 0, last_fetch |-> 0, last_error |-> None, last_source |-> None]

CacheTtl(r) ==
    CASE r = "games" -> CACHE_TTL_SEC
      [] r = "teams" -> TEAM_CACHE_TTL_SEC
      [] r = "standings" -> STANDINGS_CACHE_TTL_SEC

CacheStaleTtl(r) ==
    CASE r = "games" -> CACHE_STALE_SEC
      [] r = "teams" -> TEAM_CACHE_STALE_SEC
      [] r = "standings" -> STANDINGS_CACHE_STALE_SEC

\* what a successful upstream fetch can deliver: /matches/live may be an
\* empty list, parse_espn_teams may return [], parse_espn_standings always
\* returns a non-empty dict
UpstreamPayloads(r) == IF r = "standings" THEN {1} ELSE {0, 1}

UpstreamSource(r) == "upstream"

\* cache_age = int(time.time()) - int(snapshot.get('last_fetch') or 0)
CacheAge(snapshot, t) == t - snapshot.last_fetch

\* cache_valid = cache_age < CACHE_TTL_SEC
CacheValid(r, age) == age < CacheTtl(r)

\* StaleUsable with the stale window closed at its end (`<` for `<=`)
StaleUsable_ExclusiveWindow(r, snapshot, age) ==
    IF r = "games"
    THEN age < CacheStaleTtl(r) /\ snapshot.payload >= 0
    ELSE snapshot.payload # 0 /\ age < CacheStaleTtl(r)

\* the test that lets the pre-refresh snapshot be served after a failed
\* refresh: `cache_age <= CACHE_STALE_SEC and snapshot.get('live') is not None`
\* for games, `snapshot.get('teams') and cache_age <= TEAM_CACHE_STALE_SEC`
\* for teams, the same with 'standings' for standings
StaleUsable(r, snapshot, age) ==
    IF r = "games"
    THEN age <= CacheStaleTtl(r) /\ snapshot.payload >= 0
    ELSE snapshot.payload # 0 /\ age <= CacheStaleTtl(r)

\* GameCache.update / TeamCache.update / StandingsCache.update
CacheUpdate(data, payload, source, t) ==
    [payload |-> payload, last_fetch |-> t, last_error |-> None, last_source |-> source]

\* GameCache.mark_error / TeamCache.mark_error / StandingsCache.mark_error
CacheMarkError(data, message) == [data EXCEPT !.last_error = message]

(***************************************************************************)
(* Request threads.  A thread is idle, waiting for the upstream (its       *)
(* network call runs outside every lock), about to re-read the cache after *)
(* its own update, or done with its response still on display.  Its locals *)
(* carry the names of the code; age0 keeps the cache_age computed on       *)
(* entry, which the code overwrites with 0 after a refresh, and err the    *)
(* message of the exception its own refresh raised.                        *)
(***************************************************************************)
NoMeta == [k \in {} |-> None]

NoResponse == [status |-> 0, error |-> None, message |-> None, meta |-> NoMeta]

IdleThread ==
    [pc |-> "idle", path |-> "list", force |-> FALSE, snap |-> EmptyCacheData,
     age0 |-> 0, age |-> 0, ok |-> FALSE, stale |-> FALSE, attempted |-> FALSE, err |-> None,
     fromCache |-> FALSE]

\* what a request of the route can ask for: the list, or one game by slug
\* (a slug that find_game_by_slug resolves, or one it does not)
Paths(r) == IF r = "games" THEN {"list", "slug_found", "slug_missing"} ELSE {"list"}

\* RequestHandler.do_GET for /games, /games/<slug>, /teams and /standings,
\* from the tuple (snapshot, cache_age, cache_ok, stale) on
SnapshotResponse(path, snapshot, age, ok, stale) ==
    IF ~ok
    THEN [status |-> 502, error |-> "upstream_unavailable",
          message |-> snapshot.last_error, meta |-> NoMeta]
    ELSE IF path = "slug_missing"
    THEN [status |-> 404, error |-> "not_found", message |-> None, meta |-> NoMeta]
    ELSE [status |-> 200, error |-> None, message |-> None,
          meta |-> ("cacheAgeSec" :> age) @@ ("stale" :> stale)
                   @@ ("upstreamBase" :> snapshot.last_source)]

\* build_match_cache / get_teams / get_standings up to the refresh decision:
\* a valid cache that is not forced returns (snapshot, cache_age, True, False)
BeginSnapshotRequest(t, force, path) ==
    /\ route \in SnapshotRoutes
    /\ th[t].pc \in {"idle", "done"}
    /\ path \in Paths(route)
    /\ LET snapshot == cache
           age == CacheAge(snapshot, now)
       IN IF force \/ ~CacheValid(route, age)
          THEN /\ th' = [th EXCEPT ![t] = [IdleThread EXCEPT !.pc = "fetch", !.path = path,
                            !.force = force, !.snap = snapshot, !.age0 = age,
                            !.age = age, !.attempted = TRUE]]
               /\ resp' = [resp EXCEPT ![t] = NoResponse]
          ELSE /\ th' = [th EXCEPT ![t] = [IdleThread EXCEPT !.pc = "done", !.path = path,
                            !.force = force, !.snap = snapshot, !.age0 = age,
                            !.age = age, !.ok = TRUE, !.stale = FALSE]]
               /\ resp' = [resp EXCEPT ![t] = SnapshotResponse(path, snapshot, age, TRUE, FALSE)]
    /\ UNCHANGED <<now, ticks, route, cache, pageCache, indexCache, leadersCache>>
    /\ UNCHANGED <<healthVars, fnVars, sysVars>>

\* the upstream fetch returned: cache.update(...) under the cache lock
RefreshSucceeds(t, payload) ==
    /\ route \in SnapshotRoutes
    /\ th[t].pc = "fetch"
    /\ payload \in UpstreamPayloads(route)
    /\ cache' = CacheUpdate(cache, payload, UpstreamSource(route), now)
    /\ th' = [th EXCEPT ![t].pc = "resnap"]
    /\ UNCHANGED <<now, ticks, route, pageCache, indexCache, leadersCache, resp>>
    /\ UNCHANGED <<healthVars, fnVars, sysVars>>

\* snapshot = cache.snapshot(); cache_age = 0; return (snapshot, 0, True, False)
ReturnRefreshed(t) ==
    /\ route \in SnapshotRoutes
    /\ th[t].pc = "resnap"
    /\ th' = [th EXCEPT ![t].pc = "done", ![t].snap = cache, ![t].age = 0,
                        ![t].ok = TRUE, ![t].stale = FALSE]
    /\ resp' = [resp EXCEPT ![t] = SnapshotResponse(th[t].path, cache, 0, TRUE, FALSE)]
    /\ UNCHANGED <<now, ticks, route, cache, pageCache, indexCache, leadersCache>>
    /\ UNCHANGED <<healthVars, fnVars, sysVars>>

\* the upstream fetch raised: cache.mark_error(str(exc)), then the
\* pre-refresh snapshot is returned, as stale data or as a failure
RefreshFails(t, e) ==
    /\ route \in SnapshotRoutes
    /\ th[t].pc = "fetch"
    /\ e \in Errors
    /\ cache' = CacheMarkError(cache, e)
    /\ LET usable == StaleUsable(route, th[t].snap, th[t].age)
       IN /\ th' = [th EXCEPT ![t].pc = "done", ![t].err = e,
                              ![t].ok = usable, ![t].stale = usable]
          /\ resp' = [resp EXCEPT ![t] =
                        SnapshotResponse(th[t].path, th[t].snap, th[t].age, usable, usable)]
    /\ UNCHANGED <<now, ticks, route, pageCache, indexCache, leadersCache>>
    /\ UNCHANGED <<healthVars, fnVars, sysVars>>

(***************************************************************************)
(* The TTL caches behind /players and /leaders: one entry each (the entry  *)
(* of the request's cache_key), holding the time it was stored and, of the *)
(* stored payload, its meta object.                                        *)
(***************************************************************************)
NoEntry == [present |-> FALSE, ts |-> 0, meta |-> NoMeta]

\* get_ttl_cached_with_age / get_cached_player_leaders: the entry is served
\* unless `age > ttl`
TtlFresh(entry, ttl, t) == entry.present /\ ~(t - entry.ts > ttl)

\* set_ttl_cached / set_cached_player_leaders
TtlEntry(meta, t) == [present |-> TRUE, ts |-> t, meta |-> meta]

\* the outcomes of resolve_player_index and fetch_player_leaders when they
\* go to the upstream: a result, no result, HTTP 404, or another exception
FetchOutcomes == {"ok", "none", "http_404", "error"}

\* the handlers' answer to a failed resolve_player_index / fetch_player_leaders
FailureResponse(r, outcome, e) ==
    CASE outcome = "http_404" ->
           [status |-> 404, error |-> "season_not_found", message |-> None, meta |-> NoMeta]
      [] outcome = "none" ->
           [status |-> 404,
            error |-> IF r = "players" THEN "players_not_found" ELSE "season_not_found",
            message |-> None, meta |-> NoMeta]
      [] outcome = "error" ->
           [status |-> 502,
            error |-> IF r = "players" THEN "players_unavailable" ELSE "leaders_unavailable",
            message |-> e, meta |-> NoMeta]

\* the meta object of a /players payload built by the handler
PlayersMeta(index_age, index_from_cache) ==
    ("source" :> "core") @@ ("cacheAgeSec" :> index_age) @@ ("fromCache" :> index_from_cache)

\* the meta object of the payload fetch_player_leaders returns
LeadersMeta ==
    ("source" :> "core") @@ ("cacheAgeSec" :> 0) @@ ("stale" :> FALSE) @@ ("fromCache" :> FALSE)

\* what both handlers write into the meta of a payload served from cache
ServedFromCache(meta, age) ==
    [k \in DOMAIN meta \cup {"cacheAgeSec", "fromCache"} |->
        CASE k = "cacheAgeSec" -> age
          [] k = "fromCache" -> TRUE
          [] OTHER -> meta[k]]

\* /players up to the page cache: a hit is answered from PLAYER_PAGE_CACHE,
\* whose stored payload the handler updates in place
BeginPlayers(t, force) ==
    /\ route = "players"
    /\ th[t].pc \in {"idle", "done"}
    /\ IF ~force /\ TtlFresh(pageCache, PLAYER_PAGE_CACHE_TTL_SEC, now)
       THEN LET meta == ServedFromCache(pageCache.meta, now - pageCache.ts)
            IN /\ pageCache' = [pageCache EXCEPT !.meta = meta]
               /\ th' = [th EXCEPT ![t] = [IdleThread EXCEPT !.pc = "done", !.force = force,
                                                       !.fromCache = TRUE]]
               /\ resp' = [resp EXCEPT ![t] =
                     [status |-> 200, error |-> None, message |-> None, meta |-> meta]]
       ELSE /\ th' = [th EXCEPT ![t] = [IdleThread EXCEPT !.pc = "index", !.force = force]]
            /\ resp' = [resp EXCEPT ![t] = NoResponse]
            /\ UNCHANGED pageCache
    /\ UNCHANGED <<now, ticks, route, cache, indexCache, leadersCache>>
    /\ UNCHANGED <<healthVars, fnVars, sysVars>>

\* resolve_player_index: the index cache, or the upstream
ResolveIndex(t, outcome, e) ==
    /\ route = "players"
    /\ th[t].pc = "index"
    /\ outcome \in FetchOutcomes
    /\ e \in Errors
    /\ IF TtlFresh(indexCache, PLAYER_INDEX_CACHE_TTL_SEC, now)
       THEN /\ th' = [th EXCEPT ![t].pc = "rows", ![t].age = now - indexCache.ts,
                                ![t].fromCache = TRUE]
            /\ UNCHANGED <<indexCache, resp>>
       ELSE IF outcome = "ok"
       THEN /\ indexCache' = TtlEntry(NoMeta, now)
            /\ th' = [th EXCEPT ![t].pc = "rows", ![t].age = 0, ![t].fromCache = FALSE]
            /\ UNCHANGED resp
       ELSE /\ th' = [th EXCEPT ![t].pc = "done", ![t].err = e]
            /\ resp' = [resp EXCEPT ![t] = FailureResponse("players", outcome, e)]
            /\ UNCHANGED indexCache
    /\ UNCHANGED <<now, ticks, route, cache, pageCache, leadersCache>>
    /\ UNCHANGED <<healthVars, fnVars, sysVars>>

\* /players after the rows are built: the payload is stored and sent
RespondPlayers(t) ==
    /\ route = "players"
    /\ th[t].pc = "rows"
    /\ LET meta == PlayersMeta(th[t].age, th[t].fromCache)
       IN /\ pageCache' = TtlEntry(meta, now)
          /\ resp' = [resp EXCEPT ![t] =
                [status |-> 200, error |-> None, message |-> None, meta |-> meta]]
    /\ th' = [th EXCEPT ![t].pc = "done"]
    /\ UNCHANGED <<now, ticks, route, cache, indexCache, leadersCache>>
    /\ UNCHANGED <<healthVars, fnVars, sysVars>>

\* /leaders up to the leaders cache: get_cached_player_leaders answers a hit
\* with a copy of the stored payload
BeginLeaders(t, force) ==
    /\ route = "leaders"
    /\ th[t].pc \in {"idle", "done"}
    /\ IF ~force /\ TtlFresh(leadersCache, PLAYER_LEADERS_CACHE_TTL_SEC, now)
       THEN /\ th' = [th EXCEPT ![t] = [IdleThread EXCEPT !.pc = "done", !.force = force,
                                                       !.fromCache = TRUE]]
            /\ resp' = [resp EXCEPT ![t] =
                  [status |-> 200, error |-> None, message |-> None,
                   meta |-> ServedFromCache(leadersCache.meta, now - leadersCache.ts)]]
       ELSE /\ th' = [th EXCEPT ![t] = [IdleThread EXCEPT !.pc = "leaders", !.force = force]]
            /\ resp' = [resp EXCEPT ![t] = NoResponse]
    /\ UNCHANGED <<now, ticks, route, cache, pageCache, indexCache, leadersCache>>
    /\ UNCHANGED <<healthVars, fnVars, sysVars>>

\* /leaders once fetch_player_leaders is back
RespondLeaders(t, outcome, e) ==
    /\ route = "leaders"
    /\ th[t].pc = "leaders"
    /\ outcome \in FetchOutcomes
    /\ e \in Errors
    /\ IF outcome = "ok"
       THEN /\ leadersCache' = TtlEntry(LeadersMeta, now)
            /\ th' = [th EXCEPT ![t].pc = "done"]
            /\ resp' = [resp EXCEPT ![t] =
                  [status |-> 200, error |-> None, message |-> None, meta |-> LeadersMeta]]
       ELSE /\ th' = [th EXCEPT ![t].pc = "done", ![t].err = e]
            /\ resp' = [resp EXCEPT ![t] = FailureResponse("leaders", outcome, e)]
            /\ UNCHANGED leadersCache
    /\ UNCHANGED <<now, ticks, route, cache, pageCache, indexCache>>
    /\ UNCHANGED <<healthVars, fnVars, sysVars>>

(***************************************************************************)
(* The clock.  Time passes in steps that land a cached value just inside,  *)
(* exactly on and just outside each window of the route's cache.           *)
(***************************************************************************)
Jumps(r) ==
    CASE r \in SnapshotRoutes -> {1, CacheTtl(r) - 1, CacheStaleTtl(r) - CacheTtl(r)}
      [] r = "players" -> {1, PLAYER_PAGE_CACHE_TTL_SEC - 1,
                           PLAYER_INDEX_CACHE_TTL_SEC - PLAYER_PAGE_CACHE_TTL_SEC}
      [] r = "leaders" -> {1, PLAYER_LEADERS_CACHE_TTL_SEC - 1}

Tick(d) ==
    /\ ticks < MaxTicks
    /\ d \in Jumps(route)
    /\ now' = now + d
    /\ ticks' = ticks + 1
    /\ UNCHANGED <<route, cache, pageCache, indexCache, leadersCache, th, resp>>
    /\ UNCHANGED <<healthVars, fnVars, sysVars>>

(***************************************************************************)
(* Strings.  A string whose characters matter is a tuple of one-character  *)
(* strings.                                                                *)
(***************************************************************************)
LowerLetters ==
    <<"a", "b", "c", "d", "e", "f", "g", "h", "i", "j", "k", "l", "m",
      "n", "o", "p", "q", "r", "s", "t", "u", "v", "w", "x", "y", "z">>

UpperLetters ==
    <<"A", "B", "C", "D", "E", "F", "G", "H", "I", "J", "K", "L", "M",
      "N", "O", "P", "Q", "R", "S", "T", "U", "V", "W", "X", "Y", "Z">>

Digits == {"0", "1", "2", "3", "4", "5", "6", "7", "8", "9"}

\* str.lower(), one character
LowerChar(c) ==
    IF \E i \in 1..Len(UpperLetters) : UpperLetters[i] = c
    THEN LowerLetters[CHOOSE i \in 1..Len(UpperLetters) : UpperLetters[i] = c]
    ELSE c

\* str.lower()
Lower(str) == [i \in 1..Len(str) |-> LowerChar(str[i])]

\* the characters re.sub(r'[^a-z0-9\-_]', '', ...) keeps
IsSlugChar(c) ==
    \/ \E i \in 1..Len(LowerLetters) : LowerLetters[i] = c
    \/ c \in Digits
    \/ c \in {"-", "_"}

sanitize_slug(value) ==
    IF value = <<>> THEN <<>> ELSE SelectSeq(Lower(value), IsSlugChar)

(***************************************************************************)
(* The source health prober: probe_url, map_health_status,                 *)
(* check_source_health, HealthCache and annotate_sources.                  *)
(***************************************************************************)
\* what the embed host does to one request of a probe: it answers with an
\* HTTP status, or urlopen raises URLError (no connection), or urlopen
\* raises something else (TimeoutError or RemoteDisconnected out of
\* getresponse, which urllib does not wrap); the time the request takes
Answer(status) ==
    [status |-> status, latency_ms |-> 1, exc |-> IF status = NoStatus THEN "URLError" ELSE None]

\* what the embed host does to one probe: to its HEAD request and to its
\* ranged GET
ProbeBehaviours ==
    {<<Answer(200), Answer(NoStatus)>>, <<Answer(405), Answer(404)>>,
     <<Answer(NoStatus), Answer(NoStatus)>>}

\* the request attempt(method) sends
ProbeRequest(method) ==
    [method |-> method, range |-> IF method = "GET" THEN "bytes=0-1024" ELSE None]

\* one attempt of probe_url: (status, latency_ms, error), or the exception
\* that neither `except HTTPError` nor `except URLError` catches
attempt(method, answer) ==
    [status |-> answer.status,
     latency_ms |-> answer.latency_ms,
     error |-> IF answer.exc = "URLError" THEN "urlopen error" ELSE None,
     raised |-> answer.exc \notin {None, "URLError"},
     requests |-> <<ProbeRequest(method)>>]

\* probe_url: HEAD, then a ranged GET if HEAD was answered 405 or attempt
\* returned no status; an exception out of attempt leaves probe_url
probe_url(behaviour) ==
    LET head == attempt("HEAD", behaviour[1])
    IN IF head.raised
       THEN head
       ELSE IF head.status = 405 \/ head.status = NoStatus
       THEN [attempt("GET", behaviour[2]) EXCEPT !.requests = head.requests \o @]
       ELSE head

\* 401 and 403 taken for an outage
map_health_status_ForbiddenDown(status_code, error) ==
    IF status_code = NoStatus THEN "unknown"
    ELSE IF status_code < 400 THEN "up"
    ELSE "down"

map_health_status(status_code, error) ==
    IF status_code = NoStatus THEN "unknown"
    ELSE IF status_code < 400 THEN "up"
    ELSE IF status_code \in {401, 403} THEN "unknown"
    ELSE "down"

\* build_health_payload, without the latency and the time of the check
build_health_payload(status_code, error) ==
    [status |-> map_health_status(status_code, error), httpStatus |-> status_code,
     error |-> error]

InvalidSourcePayload ==
    [status |-> "unknown", httpStatus |-> NoStatus, error |-> "invalid_source_or_slug"]

BudgetExhaustedPayload ==
    [status |-> "unknown", httpStatus |-> NoStatus, error |-> "health_check_budget_exhausted"]

\* a source annotated without health carries no health key
NoHealth == [status |-> None, httpStatus |-> NoStatus, error |-> None]

\* whether check_source_health goes to the network for this source
IssuesProbe(source, slug) == sanitize_slug(source) # <<>> /\ sanitize_slug(slug) # <<>>

\* no payload: an exception out of probe_url leaves check_source_health
ProbeRaised == [status |-> None, httpStatus |-> NoStatus, error |-> "raised"]

check_source_health(source, slug, behaviour) ==
    IF ~IssuesProbe(source, slug)
    THEN InvalidSourcePayload
    ELSE LET probe == probe_url(behaviour)
         IN IF probe.raised THEN ProbeRaised
            ELSE build_health_payload(probe.status, probe.error)

\* key = f"{source_name}:{source_id}:1"
HealthKey(source_name, source_id) == source_name \o <<":">> \o source_id \o <<":", "1">>

\* a get that returns a record of any age
HealthCacheHas_NoExpiry(data, key, t) == key \in DOMAIN data

\* HealthCache.get: the payload, or None (absent, or older than the TTL)
HealthCacheHas(data, key, t) ==
    /\ key \in DOMAIN data
    /\ ~(t - data[key].checked_at > HEALTH_TTL_SEC)

\* HealthCache.set
HealthCacheSet(data, key, payload, t) ==
    [k \in DOMAIN data \cup {key} |->
        IF k = key THEN [checked_at |-> t, payload |-> payload] ELSE data[k]]

\* a budget test that lets a count of zero through
BudgetLeft_ZeroAllowed(count) == count >= 0

\* `checks_budget['count'] > 0`
BudgetLeft(count) == count > 0

\* a check that adds to the budget
Spend_Refund(count) == count + 1

\* `checks_budget['count'] -= 1`
Spend(count) == count - 1

\* the loop of annotate_sources from source i on.  acc carries the annotated
\* list, the budget count (and what it was after each source), the cache
\* and, per source, whether check_source_health was called for it and
\* whether that call went to the network
RECURSIVE AnnotateFrom(_, _, _, _, _, _)
AnnotateFrom(sources, i, include_health, t, behaviours, acc) ==
    IF i > Len(sources)
    THEN acc
    ELSE
        LET source_name == sources[i].source
            source_id == sources[i].id
            key == HealthKey(source_name, source_id)
            hit == HealthCacheHas(acc.cache, key, t)
            check == include_health /\ ~hit /\ BudgetLeft(acc.count)
            health ==
                IF ~include_health THEN NoHealth
                ELSE IF hit THEN acc.cache[key].payload
                ELSE IF check THEN check_source_health(source_name, source_id, behaviours[i])
                ELSE BudgetExhaustedPayload
            step ==
                [annotated |-> Append(acc.annotated,
                                  [source |-> source_name, id |-> source_id, health |-> health]),
                 count |-> IF check THEN Spend(acc.count) ELSE acc.count,
                 counts |-> Append(acc.counts, IF check THEN Spend(acc.count) ELSE acc.count),
                 cache |-> IF check THEN HealthCacheSet(acc.cache, key, health, t) ELSE acc.cache,
                 checked |-> Append(acc.checked, check),
                 probed |-> Append(acc.probed, check /\ IssuesProbe(source_name, source_id))]
        IN AnnotateFrom(sources, i + 1, include_health, t, behaviours, step)

\* annotate_sources(sources, include_health, checks_budget), where count is
\* checks_budget['count'] on entry (MAX_HEALTH_CHECKS when no budget is passed)
annotate_sources(sources, include_health, count, data, t, behaviours) ==
    AnnotateFrom(sources, 1, include_health, t, behaviours,
                 [annotated |-> <<>>, count |-> count, counts |-> <<>>, cache |-> data,
                  checked |-> <<>>, probed |-> <<>>])

(***************************************************************************)
(* The source ranker: sort_sources.  sorted() is stable: it is computed by *)
(* inserting each element after the elements whose key is not larger.      *)
(***************************************************************************)
admin == <<"a", "d", "m", "i", "n">>
delta == <<"d", "e", "l", "t", "a">>
charlie == <<"c", "h", "a", "r", "l", "i", "e">>
echo == <<"e", "c", "h", "o">>
golf == <<"g", "o", "l", "f">>
alpha == <<"a", "l", "p", "h", "a">>
bravo == <<"b", "r", "a", "v", "o">>

SOURCE_PREFERENCE == <<admin, delta, charlie, echo, golf, alpha, bravo>>

\* the health_score of source_rank
health_score(status) ==
    CASE status = "up" -> 0
      [] status = "unknown" -> 1
      [] status = "down" -> 2
      [] OTHER -> 1

\* the pref_index of source_rank: SOURCE_PREFERENCE.index(name), or its length
pref_index(name) ==
    IF \E i \in 1..Len(SOURCE_PREFERENCE) : SOURCE_PREFERENCE[i] = name
    THEN (CHOOSE i \in 1..Len(SOURCE_PREFERENCE) :
            /\ SOURCE_PREFERENCE[i] = name
            /\ \A j \in 1..(i - 1) : SOURCE_PREFERENCE[j] # name) - 1
    ELSE Len(SOURCE_PREFERENCE)

source_rank(source) == <<health_score(source.health.status), pref_index(source.source)>>

\* an order that puts a source before the earlier sources of the same key
RankLess_OrEqual(a, b) == a[1] < b[1] \/ (a[1] = b[1] /\ a[2] <= b[2])

\* the order of Python tuples
RankLess(a, b) == a[1] < b[1] \/ (a[1] = b[1] /\ a[2] < b[2])

\* x placed into an already sorted list, after every element it is not
\* smaller than
RECURSIVE InsertByRank(_, _)
InsertByRank(sorted, x) ==
    IF sorted = <<>> THEN <<x>>
    ELSE IF RankLess(source_rank(x), source_rank(Head(sorted)))
    THEN <<x>> \o sorted
    ELSE <<Head(sorted)>> \o InsertByRank(Tail(sorted), x)

RECURSIVE SortFrom(_, _, _)
SortFrom(sources, i, sorted) ==
    IF i > Len(sources) THEN sorted
    ELSE SortFrom(sources, i + 1, InsertByRank(sorted, sources[i]))

sort_sources(sources) == SortFrom(sources, 1, <<>>)

(***************************************************************************)
(* /games and /games/<slug> with health: parse_match for every match of    *)
(* the snapshot, then apply_health_to_games over the games built.          *)
(***************************************************************************)
\* the sources an upstream match can list: a plain one, two different
\* (name, id) pairs that format to the same cache key, and one without a
\* name.  A match without usable sources falls back to admin/<match id>,
\* and the match id here sanitizes to nothing
RawSources ==
    { [source |-> <<"b">>, id |-> <<"c">>],
      [source |-> <<"a", ":", "b">>, id |-> <<"c">>],
      [source |-> <<"a">>, id |-> <<"b", ":", "c">>],
      [source |-> <<>>, id |-> <<"x">>] }

SeqsUpTo(S, n) == UNION { [1..k -> S] : k \in 0..n }

\* the matches of a snapshot: an id and a list of sources each
Matches == [id : {<<"!">>}, sources : SeqsUpTo(RawSources, MaxSources)]

\* build_games_for_league / build_games_for_all call
\* parse_match(..., include_health=False, ...)
ParseIncludeHealth == FALSE

HasNameAndId(source) == source.source # <<>> /\ source.id # <<>>

\* the raw_sources of parse_match
raw_sources(match) ==
    LET listed == SelectSeq(match.sources, HasNameAndId)
    IN IF listed = <<>> /\ match.id # <<>>
       THEN <<[source |-> admin, id |-> match.id]>>
       ELSE listed

\* how many entries of a sequence of booleans are true
RECURSIVE CountTrue(_)
CountTrue(flags) ==
    IF flags = <<>> THEN 0 ELSE (IF Head(flags) THEN 1 ELSE 0) + CountTrue(Tail(flags))

\* which entries of an annotated list carry the record made up when the
\* budget is exhausted
Synthetic(annotated) ==
    [i \in 1..Len(annotated) |-> annotated[i].health = BudgetExhaustedPayload]

NoCall ==
    [sources |-> <<>>, count0 |-> 0, counts |-> <<>>, clean |-> FALSE, probed |-> <<>>,
     synthetic |-> <<>>]

IdleRequest ==
    [pc |-> "idle", include_health |-> FALSE, games |-> 0, sources |-> <<>>,
     count |-> 0, probes |-> 0]

\* no source of the list has an unexpired record in the health cache
NoFreshRecord(sources, data, t) ==
    \A i \in 1..Len(sources) :
        ~HealthCacheHas(data, HealthKey(sources[i].source, sources[i].id), t)

\* a request for /games or /games/<slug> arrives, with or without
\* includeHealth=1; apply_health_to_games starts with
\* budget = {'count': MAX_HEALTH_CHECKS}
BeginGames(include_health) ==
    /\ hreq.pc \in {"idle", "done"}
    /\ hreq' = [IdleRequest EXCEPT !.pc = "games", !.include_health = include_health,
                                   !.count = MAX_HEALTH_CHECKS]
    /\ last' = NoCall
    /\ UNCHANGED <<now, ticks, MAX_HEALTH_CHECKS, healthCache>>
    /\ UNCHANGED <<servedVars, fnVars, sysVars>>

\* what the embed host does to the probes of a /games request: it answers
\* the HEAD request, or refuses it and answers the ranged GET
GameProbeBehaviours == {<<Answer(200), Answer(NoStatus)>>, <<Answer(405), Answer(404)>>}

\* a probe made where the code makes none would get no answer
Unanswered == [i \in 1..MaxSources |-> <<Answer(NoStatus), Answer(NoStatus)>>]

\* one game of the response is built: parse_match in the loop of
\* build_games_for_league / build_games_for_all, whose annotate_sources call
\* gives itself a budget of its own.  (With include_health false parse_match
\* reads and writes nothing shared, so the game can be handed to
\* apply_health_to_games before the next one is built.)
ParseGame(match) ==
    /\ hreq.pc = "games"
    /\ hreq.games < MaxGames
    /\ LET parsed == annotate_sources(raw_sources(match), ParseIncludeHealth,
                                      MAX_HEALTH_CHECKS, healthCache, now, Unanswered)
       IN /\ healthCache' = parsed.cache
          /\ hreq' = [hreq EXCEPT !.pc = IF hreq.include_health THEN "health" ELSE "games",
                                  !.games = IF hreq.include_health THEN @ ELSE @ + 1,
                                  !.sources = IF hreq.include_health
                                              THEN sort_sources(parsed.annotated)
                                              ELSE <<>>,
                                  !.probes = @ + CountTrue(parsed.probed)]
    /\ UNCHANGED <<now, ticks, MAX_HEALTH_CHECKS, last>>
    /\ UNCHANGED <<servedVars, fnVars, sysVars>>

\* the iteration of the loop of apply_health_to_games for the game built:
\* annotate_sources with the budget of the request, then sort_sources (the
\* order of the response is not kept in the state)
AnnotateGame(behaviours) ==
    /\ hreq.pc = "health"
    /\ LET a == annotate_sources(hreq.sources, TRUE, hreq.count, healthCache, now, behaviours)
       IN /\ healthCache' = a.cache
          /\ hreq' = [hreq EXCEPT !.pc = "games", !.games = @ + 1, !.sources = <<>>,
                                  !.count = a.count,
                                  !.probes = @ + CountTrue(a.probed)]
          /\ last' = [sources |-> [i \in 1..Len(hreq.sources) |->
                                     [source |-> hreq.sources[i].source,
                                      id |-> hreq.sources[i].id]],
                      count0 |-> hreq.count,
                      counts |-> a.counts,
                      clean |-> NoFreshRecord(hreq.sources, healthCache, now),
                      probed |-> a.probed,
                      synthetic |-> Synthetic(a.annotated)]
    /\ UNCHANGED <<now, ticks, MAX_HEALTH_CHECKS>>
    /\ UNCHANGED <<servedVars, fnVars, sysVars>>

\* the loops are over and the response is sent
FinishGames ==
    /\ hreq.pc = "games"
    /\ hreq' = [hreq EXCEPT !.pc = "done"]
    /\ UNCHANGED <<now, ticks, MAX_HEALTH_CHECKS, healthCache, last>>
    /\ UNCHANGED <<servedVars, fnVars, sysVars>>

\* time passes: the TTL of a health record, or a second more
HealthJumps == {HEALTH_TTL_SEC, HEALTH_TTL_SEC + 1}

HealthTick(d) ==
    /\ ticks < MaxHealthTicks
    /\ d \in HealthJumps
    /\ now' = now + d
    /\ ticks' = ticks + 1
    /\ UNCHANGED <<MAX_HEALTH_CHECKS, healthCache, hreq, last>>
    /\ UNCHANGED <<servedVars, fnVars, sysVars>>

(***************************************************************************)
(* The league classifier: is_league_match and identify_match_league.  Text *)
(* is a tuple of characters, so that `in' is a search for a substring.     *)
(***************************************************************************)
nfl == <<"n", "f", "l">>
nba == <<"n", "b", "a">>
mlb == <<"m", "l", "b">>
nhl == <<"n", "h", "l">>

GLOBAL_EXCLUDED_KEYWORDS == <<>>

NFL_CONFIG ==
    [categories |->
       << <<"a", "m", "e", "r", "i", "c", "a", "n", "-", "f", "o", "o", "t", "b", "a", "l", "l">>,
          <<"n", "f", "l">>, <<"f", "o", "o", "t", "b", "a", "l", "l", "-", "a", "m">> >>,
     brand_keywords |->
       << <<"n", "f", "l">>, <<"r", "e", "d", "z", "o", "n", "e">>,
          <<"r", "e", "d", " ", "z", "o", "n", "e">>,
          <<"n", "f", "l", " ", "n", "e", "t", "w", "o", "r", "k">> >>,
     team_keywords |->
       << <<"b", "i", "l", "l", "s">>, <<"d", "o", "l", "p", "h", "i", "n", "s">>,
          <<"p", "a", "t", "r", "i", "o", "t", "s">>, <<"j", "e", "t", "s">>,
          <<"r", "a", "v", "e", "n", "s">>, <<"b", "e", "n", "g", "a", "l", "s">>,
          <<"b", "r", "o", "w", "n", "s">>, <<"s", "t", "e", "e", "l", "e", "r", "s">>,
          <<"t", "e", "x", "a", "n", "s">>, <<"c", "o", "l", "t", "s">>,
          <<"j", "a", "g", "u", "a", "r", "s">>, <<"t", "i", "t", "a", "n", "s">>,
          <<"b", "r", "o", "n", "c", "o", "s">>, <<"c", "h", "i", "e", "f", "s">>,
          <<"r", "a", "i", "d", "e", "r", "s">>, <<"c", "h", "a", "r", "g", "e", "r", "s">>,
          <<"c", "o", "w", "b", "o", "y", "s">>, <<"g", "i", "a", "n", "t", "s">>,
          <<"e", "a", "g", "l", "e", "s">>, <<"c", "o", "m", "m", "a", "n", "d", "e", "r", "s">>,
          <<"b", "e", "a", "r", "s">>, <<"l", "i", "o", "n", "s">>, <<"p", "a", "c", "k", "e", "r", "s">>,
          <<"v", "i", "k", "i", "n", "g", "s">>, <<"f", "a", "l", "c", "o", "n", "s">>,
          <<"p", "a", "n", "t", "h", "e", "r", "s">>, <<"s", "a", "i", "n", "t", "s">>,
          <<"b", "u", "c", "c", "a", "n", "e", "e", "r", "s">>,
          <<"c", "a", "r", "d", "i", "n", "a", "l", "s">>, <<"r", "a", "m", "s">>,
          <<"4", "9", "e", "r", "s">>, <<"s", "e", "a", "h", "a", "w", "k", "s">> >>,
     exclude_keywords |->
       << <<"n", "c", "a", "a", "f">>, <<"n", "c", "a", "a">>, <<"c", "o", "l", "l", "e", "g", "e">>,
          <<"c", "f", "b">>, <<"f", "b", "s">>, <<"f", "c", "s">>, <<"x", "f", "l">>,
          <<"u", "s", "f", "l">>, <<"c", "f", "l">>, <<"a", "r", "e", "n", "a">>, <<"n", "h", "l">>,
          <<"h", "o", "c", "k", "e", "y">>, <<"i", "c", "e", " ", "h", "o", "c", "k", "e", "y">> >>]

NBA_CONFIG ==
    [categories |->
       << <<"b", "a", "s", "k", "e", "t", "b", "a", "l", "l">>, <<"n", "b", "a">> >>,
     brand_keywords |->
       << <<"n", "b", "a">>, <<"n", "b", "a", " ", "t", "v">>,
          <<"l", "e", "a", "g", "u", "e", " ", "p", "a", "s", "s">>,
          <<"s", "u", "m", "m", "e", "r", " ", "l", "e", "a", "g", "u", "e">>,
          <<"a", "l", "l", "-", "s", "t", "a", "r">>, <<"a", "l", "l", " ", "s", "t", "a", "r">> >>,
     team_keywords |->
       << <<"h", "a", "w", "k", "s">>, <<"c", "e", "l", "t", "i", "c", "s">>, <<"n", "e", "t", "s">>,
          <<"h", "o", "r", "n", "e", "t", "s">>, <<"b", "u", "l", "l", "s">>,
          <<"c", "a", "v", "a", "l", "i", "e", "r", "s">>,
          <<"m", "a", "v", "e", "r", "i", "c", "k", "s">>, <<"n", "u", "g", "g", "e", "t", "s">>,
          <<"p", "i", "s", "t", "o", "n", "s">>, <<"w", "a", "r", "r", "i", "o", "r", "s">>,
          <<"r", "o", "c", "k", "e", "t", "s">>, <<"p", "a", "c", "e", "r", "s">>,
          <<"c", "l", "i", "p", "p", "e", "r", "s">>, <<"l", "a", "k", "e", "r", "s">>,
          <<"g", "r", "i", "z", "z", "l", "i", "e", "s">>, <<"h", "e", "a", "t">>,
          <<"b", "u", "c", "k", "s">>, <<"t", "i", "m", "b", "e", "r", "w", "o", "l", "v", "e", "s">>,
          <<"p", "e", "l", "i", "c", "a", "n", "s">>, <<"k", "n", "i", "c", "k", "s">>,
          <<"t", "h", "u", "n", "d", "e", "r">>, <<"m", "a", "g", "i", "c">>, <<"7", "6", "e", "r", "s">>,
          <<"s", "i", "x", "e", "r", "s">>, <<"s", "u", "n", "s">>,
          <<"t", "r", "a", "i", "l", " ", "b", "l", "a", "z", "e", "r", "s">>,
          <<"b", "l", "a", "z", "e", "r", "s">>, <<"k", "i", "n", "g", "s">>, <<"s", "p", "u", "r", "s">>,
          <<"r", "a", "p", "t", "o", "r", "s">>, <<"j", "a", "z", "z">>,
          <<"w", "i", "z", "a", "r", "d", "s">> >>,
     exclude_keywords |->
       << <<"w", "n", "b", "a">>, <<"n", "c", "a", "a", "b">>, <<"n", "c", "a", "a">>,
          <<"c", "o", "l", "l", "e", "g", "e">>, <<"g", " ", "l", "e", "a", "g", "u", "e">>,
          <<"g", "l", "e", "a", "g", "u", "e">>, <<"f", "i", "b", "a">>,
          <<"e", "u", "r", "o", "l", "e", "a", "g", "u", "e">>, <<"n", "h", "l">>,
          <<"h", "o", "c", "k", "e", "y">>, <<"i", "c", "e", " ", "h", "o", "c", "k", "e", "y">> >>]

MLB_CONFIG ==
    [categories |->
       << <<"b", "a", "s", "e", "b", "a", "l", "l">>, <<"m", "l", "b">> >>,
     brand_keywords |->
       << <<"m", "l", "b">>, <<"m", "l", "b", " ", "n", "e", "t", "w", "o", "r", "k">>,
          <<"w", "o", "r", "l", "d", " ", "s", "e", "r", "i", "e", "s">>,
          <<"s", "p", "r", "i", "n", "g", " ", "t", "r", "a", "i", "n", "i", "n", "g">>,
          <<"a", "l", "l", "-", "s", "t", "a", "r">> >>,
     team_keywords |->
       << <<"o", "r", "i", "o", "l", "e", "s">>, <<"r", "e", "d", " ", "s", "o", "x">>,
          <<"y", "a", "n", "k", "e", "e", "s">>, <<"r", "a", "y", "s">>,
          <<"b", "l", "u", "e", " ", "j", "a", "y", "s">>,
          <<"w", "h", "i", "t", "e", " ", "s", "o", "x">>,
          <<"g", "u", "a", "r", "d", "i", "a", "n", "s">>, <<"t", "i", "g", "e", "r", "s">>,
          <<"r", "o", "y", "a", "l", "s">>, <<"t", "w", "i", "n", "s">>, <<"a", "s", "t", "r", "o", "s">>,
          <<"a", "n", "g", "e", "l", "s">>, <<"a", "t", "h", "l", "e", "t", "i", "c", "s">>,
          <<"m", "a", "r", "i", "n", "e", "r", "s">>, <<"r", "a", "n", "g", "e", "r", "s">>,
          <<"b", "r", "a", "v", "e", "s">>, <<"m", "a", "r", "l", "i", "n", "s">>, <<"m", "e", "t", "s">>,
          <<"p", "h", "i", "l", "l", "i", "e", "s">>, <<"n", "a", "t", "i", "o", "n", "a", "l", "s">>,
          <<"c", "u", "b", "s">>, <<"r", "e", "d", "s">>, <<"b", "r", "e", "w", "e", "r", "s">>,
          <<"p", "i", "r", "a", "t", "e", "s">>, <<"c", "a", "r", "d", "i", "n", "a", "l", "s">>,
          <<"d", "i", "a", "m", "o", "n", "d", "b", "a", "c", "k", "s">>,
          <<"r", "o", "c", "k", "i", "e", "s">>, <<"d", "o", "d", "g", "e", "r", "s">>,
          <<"p", "a", "d", "r", "e", "s">>, <<"g", "i", "a", "n", "t", "s">> >>,
     exclude_keywords |->
       << <<"c", "o", "l", "l", "e", "g", "e">>, <<"n", "c", "a", "a">>,
          <<"m", "i", "n", "o", "r", " ", "l", "e", "a", "g", "u", "e">>,
          <<"t", "r", "i", "p", "l", "e", "-", "a">>, <<"d", "o", "u", "b", "l", "e", "-", "a">>,
          <<"k", "b", "o">>, <<"n", "p", "b">> >>]

NHL_CONFIG ==
    [categories |->
       << <<"h", "o", "c", "k", "e", "y">>, <<"i", "c", "e", "-", "h", "o", "c", "k", "e", "y">>,
          <<"n", "h", "l">> >>,
     brand_keywords |->
       << <<"n", "h", "l">>, <<"n", "h", "l", " ", "n", "e", "t", "w", "o", "r", "k">>,
          <<"h", "o", "c", "k", "e", "y", " ", "n", "i", "g", "h", "t">>,
          <<"s", "t", "a", "n", "l", "e", "y", " ", "c", "u", "p">>,
          <<"w", "i", "n", "t", "e", "r", " ", "c", "l", "a", "s", "s", "i", "c">> >>,
     team_keywords |->
       << <<"d", "u", "c", "k", "s">>, <<"b", "r", "u", "i", "n", "s">>, <<"s", "a", "b", "r", "e", "s">>,
          <<"f", "l", "a", "m", "e", "s">>, <<"h", "u", "r", "r", "i", "c", "a", "n", "e", "s">>,
          <<"b", "l", "a", "c", "k", "h", "a", "w", "k", "s">>,
          <<"a", "v", "a", "l", "a", "n", "c", "h", "e">>,
          <<"b", "l", "u", "e", " ", "j", "a", "c", "k", "e", "t", "s">>, <<"s", "t", "a", "r", "s">>,
          <<"r", "e", "d", " ", "w", "i", "n", "g", "s">>, <<"o", "i", "l", "e", "r", "s">>,
          <<"p", "a", "n", "t", "h", "e", "r", "s">>, <<"k", "i", "n", "g", "s">>, <<"w", "i", "l", "d">>,
          <<"c", "a", "n", "a", "d", "i", "e", "n", "s">>,
          <<"p", "r", "e", "d", "a", "t", "o", "r", "s">>, <<"d", "e", "v", "i", "l", "s">>,
          <<"i", "s", "l", "a", "n", "d", "e", "r", "s">>, <<"r", "a", "n", "g", "e", "r", "s">>,
          <<"s", "e", "n", "a", "t", "o", "r", "s">>, <<"f", "l", "y", "e", "r", "s">>,
          <<"p", "e", "n", "g", "u", "i", "n", "s">>, <<"s", "h", "a", "r", "k", "s">>,
          <<"k", "r", "a", "k", "e", "n">>, <<"b", "l", "u", "e", "s">>,
          <<"l", "i", "g", "h", "t", "n", "i", "n", "g">>,
          <<"m", "a", "p", "l", "e", " ", "l", "e", "a", "f", "s">>, <<"l", "e", "a", "f", "s">>,
          <<"c", "a", "n", "u", "c", "k", "s">>,
          <<"g", "o", "l", "d", "e", "n", " ", "k", "n", "i", "g", "h", "t", "s">>,
          <<"c", "a", "p", "i", "t", "a", "l", "s">>, <<"j", "e", "t", "s">>, <<"u", "t", "a", "h">>,
          <<"c", "o", "y", "o", "t", "e", "s">> >>,
     exclude_keywords |->
       << <<"a", "h", "l">>, <<"k", "h", "l">>, <<"n", "c", "a", "a">>,
          <<"c", "o", "l", "l", "e", "g", "e">>, <<"w", "h", "l">>, <<"o", "h", "l">>,
          <<"q", "m", "j", "h", "l">>, <<"i", "i", "h", "f">>,
          <<"w", "o", "r", "l", "d", " ", "j", "u", "n", "i", "o", "r", "s">>,
          <<"o", "l", "y", "m", "p", "i", "c", "s">> >>]

LEAGUE_CONFIGS ==
    (nfl :> NFL_CONFIG) @@ (nba :> NBA_CONFIG) @@ (mlb :> MLB_CONFIG) @@ (nhl :> NHL_CONFIG)

\* the leagues in the opposite order
PRIORITY_LEAGUES_Reversed == <<nhl, mlb, nba, nfl>>

PRIORITY_LEAGUES == <<nfl, nba, mlb, nhl>>

\* LEAGUE_CONFIGS.keys(), in the order the dict was written
LeagueKeys == <<nfl, nba, mlb, nhl>>

\* Python's `needle in haystack` on strings
In(needle, haystack) ==
    \E i \in 0..(Len(haystack) - Len(needle)) :
        \A j \in 1..Len(needle) : haystack[i + j] = needle[j]

\* any(keyword in text for keyword in keywords)
AnyIn(keywords, text) == \E k \in 1..Len(keywords) : In(keywords[k], text)

\* sum(1 for nickname in keywords if nickname in text)
RECURSIVE CountIn(_, _)
CountIn(keywords, text) ==
    IF keywords = <<>> THEN 0
    ELSE (IF In(Head(keywords), text) THEN 1 ELSE 0) + CountIn(Tail(keywords), text)

\* f"{match.get('title', '')} {match.get('id', '')}".lower()
search_text(match) == Lower(match.title \o <<" ">> \o match.id)

\* is_league_match with the brand keywords looked at before the excluded ones
is_league_match_BrandFirst(match, league) ==
    IF league \notin DOMAIN LEAGUE_CONFIGS
    THEN FALSE
    ELSE
        LET config == LEAGUE_CONFIGS[league]
            category == Lower(match.category)
            text == search_text(match)
            nickname_hits == CountIn(config.team_keywords, text)
        IN IF category # <<>> /\ ~AnyIn(config.categories, category) THEN FALSE
           ELSE IF AnyIn(config.brand_keywords, text) THEN TRUE
           ELSE IF AnyIn(GLOBAL_EXCLUDED_KEYWORDS, text) THEN FALSE
           ELSE IF AnyIn(config.exclude_keywords, text) THEN FALSE
           ELSE IF nickname_hits >= 2 THEN TRUE
           ELSE category # <<>> /\ In(league, category) /\ nickname_hits >= 1

is_league_match(match, league) ==
    IF league \notin DOMAIN LEAGUE_CONFIGS
    THEN FALSE
    ELSE
        LET config == LEAGUE_CONFIGS[league]
            category == Lower(match.category)
            text == search_text(match)
            nickname_hits == CountIn(config.team_keywords, text)
        IN IF category # <<>> /\ ~AnyIn(config.categories, category) THEN FALSE
           ELSE IF AnyIn(GLOBAL_EXCLUDED_KEYWORDS, text) THEN FALSE
           ELSE IF AnyIn(config.exclude_keywords, text) THEN FALSE
           ELSE IF AnyIn(config.brand_keywords, text) THEN TRUE
           ELSE IF nickname_hits >= 2 THEN TRUE
           ELSE IF category # <<>> /\ In(league, category) /\ nickname_hits >= 1 THEN TRUE
           ELSE FALSE

\* None where a league key is expected
NoLeague == <<>>

\* for league_key in leagues: if is_league_match(match, league_key): return league_key
RECURSIVE FirstMatch(_, _, _)
FirstMatch(leagues, i, match) ==
    IF i > Len(leagues) THEN NoLeague
    ELSE IF is_league_match(match, leagues[i]) THEN leagues[i]
    ELSE FirstMatch(leagues, i + 1, match)

identify_match_league(match) ==
    LET by_priority == FirstMatch(PRIORITY_LEAGUES, 1, match)
    IN IF by_priority # NoLeague THEN by_priority ELSE FirstMatch(LeagueKeys, 1, match)

(***************************************************************************)
(* Calls of the functions that work on their arguments alone: the ranker   *)
(* on lists of sources, the classifier on matches.                         *)
(***************************************************************************)
\* names the ranker is given: the first and the last of SOURCE_PREFERENCE
\* and one that is not listed
SortNames == {admin, bravo, <<"z", "u", "l", "u">>}

\* health records the ranker is given: each outcome of a probe, the record
\* of an exhausted budget, and none
SortHealths ==
    {check_source_health(admin, <<"x">>, b) : b \in ProbeBehaviours}
        \cup {BudgetExhaustedPayload, NoHealth}

SortSources == [source : SortNames, id : {<<"x">>}, health : SortHealths]

\* words of the titles the classifier is given
TitleWords ==
    { <<"N", "C", "A", "A">>,
      <<"L", "a", "k", "e", "r", "s">>,
      <<"C", "e", "l", "t", "i", "c", "s">>,
      <<"B", "i", "l", "l", "s">>,
      <<"R", "e", "d", "Z", "o", "n", "e">>,
      <<"A", "l", "l", "-", "S", "t", "a", "r">> }

\* " ".join(words)
RECURSIVE JoinWords(_)
JoinWords(words) ==
    IF words = <<>> THEN <<>>
    ELSE IF Len(words) = 1 THEN Head(words)
    ELSE Head(words) \o <<" ">> \o JoinWords(Tail(words))

Titles == {JoinWords(words) : words \in SeqsUpTo(TitleWords, MaxWords)}

Categories ==
    { <<>>,
      <<"B", "a", "s", "k", "e", "t", "b", "a", "l", "l">>,
      <<"a", "m", "e", "r", "i", "c", "a", "n", "-", "f", "o", "o", "t", "b", "a", "l", "l">>,
      <<"N", "F", "L">>,
      <<"b", "a", "s", "e", "b", "a", "l", "l">> }

MatchIds == {<<"x">>, <<"n", "h", "l">>}

ClassifierMatches == [category : Categories, title : Titles, id : MatchIds]

\* the leagues is_league_match is asked about: the configured ones and one
\* that is not
AskedLeagues == {nfl, nba, mlb, nhl, <<"x", "f", "l">>}

NoPureCall == [fn |-> None, arg |-> <<>>, results |-> <<>>]

PureCall(fn, arg) == [fn |-> fn, arg |-> arg, results |-> <<>>]

\* sort_sources(call.arg)
SortSourcesCall ==
    /\ call.fn = "sort_sources"
    /\ call.results = <<>>
    /\ call' = [call EXCEPT !.results = <<sort_sources(call.arg)>>]
    /\ UNCHANGED <<cacheVars, healthVars, net, sysVars>>

\* is_league_match(match, league)
IsLeagueMatchCall ==
    /\ call.fn = "is_league_match"
    /\ call.results = <<>>
    /\ call' = [call EXCEPT !.results = <<is_league_match(call.arg.match, call.arg.league)>>]
    /\ UNCHANGED <<cacheVars, healthVars, net, sysVars>>

\* identify_match_league(match), called twice on the same match
IdentifyMatchLeagueCall ==
    /\ call.fn = "identify_match_league"
    /\ Len(call.results) < 2
    /\ call' = [call EXCEPT !.results = Append(@, identify_match_league(call.arg))]
    /\ UNCHANGED <<cacheVars, healthVars, net, sysVars>>

\* time passes between the two calls
BetweenCalls ==
    /\ call.fn = "identify_match_league"
    /\ Len(call.results) = 1
    /\ ticks = 0
    /\ now' = now + 1
    /\ ticks' = 1
    /\ UNCHANGED <<servedVars, healthVars, fnVars, sysVars>>

(***************************************************************************)
(* Resilient fetch: fetch_json (retries with backoff) under fetch_matches  *)
(* (one fetch_json call per base URL, in the order of API_BASES).          *)
(***************************************************************************)
\* the API_BASES the process can be configured with
BaseLists == UNION { [1..k -> {"base1", "base2"}] : k \in 0..MaxBases }

\* what one urlopen attempt can end in: a 200 whose body is a JSON list,
\* a 200 whose body is another JSON value, an HTTPError, a URLError
AttemptOutcomes == {"list", "object", "http_404", "http_500", "timeout"}

IsSuccess(outcome) == outcome \in {"list", "object"}

\* the exception or the payload of attempt number k (from 0) on the base at
\* position i; the place makes each of them a value of its own
Outcome(kind, i, k) == [kind |-> kind, base |-> i, attempt |-> k]

NoError == [kind |-> None, base |-> 0, attempt |-> 0]

\* RuntimeError('Failed to fetch JSON') / RuntimeError('Failed to fetch matches')
RuntimeError(message) == [kind |-> message, base |-> 0, attempt |-> 0]

\* `for attempt in range(RETRY_COUNT)` goes round once more
MoreAttempts_OneExtra(k) == k <= RETRY_COUNT

\* `for attempt in range(RETRY_COUNT)` goes round once more
MoreAttempts(k) == k < RETRY_COUNT

\* time.sleep(BACKOFF_BASE_SEC * (2 ** attempt)), in tenths of a second
Backoff(k) == BACKOFF_BASE_SEC * (2 ^ k)

\* a fetch_json call of fetch_matches: the outcomes of its attempts, its
\* sleeps, and how it ended
NewCall(i) ==
    [base |-> i, attempts |-> <<>>, sleeps |-> <<>>, ended |-> "running", value |-> NoError]

NoFetch ==
    [pc |-> "idle", bases |-> <<>>, i |-> 0, attempt |-> 0, last_error |-> NoError,
     matches_error |-> NoError, calls |-> <<>>, ended |-> "running", value |-> NoError,
     from |-> 0]

\* fetch_matches(endpoint) is called
StartFetch(bases) ==
    [NoFetch EXCEPT !.bases = bases, !.i = 1,
                    !.pc = IF bases = <<>> THEN "fail" ELSE "attempt",
                    !.calls = IF bases = <<>> THEN <<>> ELSE <<NewCall(1)>>]

\* fetch_matches returns whatever fetch_json returned
MatchesOf_AsIs(outcome) == outcome

\* fetch_matches returns (data, base) for a list and ([], base) otherwise
MatchesOf(outcome) == IF outcome.kind = "list" THEN outcome ELSE [outcome EXCEPT !.kind = "[]"]

\* one urlopen attempt of fetch_json and what follows it without a pause: on
\* success fetch_json returns and so does fetch_matches; on an exception
\* last_error is set and the sleep begins
Attempt(kind) ==
    /\ net.pc = "attempt"
    /\ MoreAttempts(net.attempt)
    /\ LET c == Len(net.calls)
           outcome == Outcome(kind, net.i, net.attempt)
           tried == [net EXCEPT !.calls[c].attempts = Append(@, outcome)]
       IN IF IsSuccess(kind)
          THEN net' = [tried EXCEPT !.calls[c].ended = "returned", !.calls[c].value = outcome,
                                    !.pc = "done", !.ended = "returned",
                                    !.value = MatchesOf(outcome), !.from = net.i]
          ELSE net' = [tried EXCEPT !.last_error = outcome, !.pc = "sleep"]
    /\ UNCHANGED <<cacheVars, healthVars, call, sysVars>>

\* the time.sleep of the except branch, after every failed attempt
Sleep ==
    /\ net.pc = "sleep"
    /\ LET c == Len(net.calls)
       IN net' = [net EXCEPT !.calls[c].sleeps = Append(@, Backoff(net.attempt)),
                             !.attempt = @ + 1, !.pc = "attempt"]
    /\ UNCHANGED <<cacheVars, healthVars, call, sysVars>>

\* the loop of fetch_json is over: it raises last_error (or RuntimeError);
\* fetch_matches catches it, keeps it as its last_error and goes on to the
\* next base
RaiseLastError ==
    /\ net.pc = "attempt"
    /\ ~MoreAttempts(net.attempt)
    /\ LET c == Len(net.calls)
           exc == IF net.last_error # NoError THEN net.last_error
                  ELSE RuntimeError("Failed to fetch JSON")
           raised == [net EXCEPT !.calls[c].ended = "raised", !.calls[c].value = exc,
                                 !.matches_error = exc, !.last_error = NoError,
                                 !.attempt = 0, !.i = @ + 1]
       IN IF net.i < Len(net.bases)
          THEN net' = [raised EXCEPT !.calls = Append(@, NewCall(net.i + 1))]
          ELSE net' = [raised EXCEPT !.pc = "fail"]
    /\ UNCHANGED <<cacheVars, healthVars, call, sysVars>>

\* the loop of fetch_matches is over: it raises its last_error (or
\* RuntimeError when there was no base)
FetchMatchesFails ==
    /\ net.pc = "fail"
    /\ net' = [net EXCEPT !.pc = "done", !.ended = "raised",
                          !.value = IF net.matches_error # NoError THEN net.matches_error
                                    ELSE RuntimeError("Failed to fetch matches")]
    /\ UNCHANGED <<cacheVars, healthVars, call, sysVars>>

NextFetch ==
    \/ \E kind \in AttemptOutcomes : Attempt(kind)
    \/ Sleep
    \/ RaiseLastError
    \/ FetchMatchesFails

(***************************************************************************)
(* The player index: resolve_core_season_candidates, resolve_player_index  *)
(* (on a miss of PLAYER_INDEX_CACHE) and build_player_index.               *)
(***************************************************************************)
current == <<"c", "u", "r", "r", "e", "n", "t">>

\* the season parameter of a request, after strip()
SeasonKeys ==
    {current, <<"2", "0", "2", "4">>, <<"2", "0", "2", "4", "-", "2", "5">>, <<"2", "4">>}

\* the years of the season list of the upstream, newest first
SeasonYears ==
    <<<<"2", "0", "2", "6">>, <<"2", "0", "2", "5">>, <<"2", "0", "2", "4">>,
      <<"2", "0", "2", "3">>>>

IsDigit(c) == c \in Digits

\* years: what fetch_core_seasons and extract_season_year give for the league
resolve_core_season_candidates(season_value, years) ==
    IF season_value # <<>> /\ Lower(season_value) # current
    THEN LET cleaned == SelectSeq(season_value, IsDigit)
         IN IF Len(cleaned) >= 4 THEN <<SubSeq(cleaned, 1, 4)>> ELSE <<>>
    ELSE years

\* what build_player_index(league, candidate) can do: return an index with
\* athletes, return an index without athletes, raise HTTPError 404, raise
\* another HTTPError, raise an exception that is not an HTTPError
BuildOutcomes == {"index", "empty", "http_404", "http_500", "timeout"}

IsHTTPError(outcome) == outcome \in {"http_404", "http_500"}

\* `exc.code == 404 and season_key == 'current'`
TryNextAfter404(outcome, season_key) == outcome = "http_404" /\ season_key = current

\* `last_error = None`
NoIndexError == [kind |-> None, at |-> 0]

\* `return None, None, False`: no index
NoSeason == <<>>

Resolved(ended, candidate, error, tried) ==
    [ended |-> ended, season |-> candidate, error |-> error, tried |-> tried]

\* the loop over the candidates from candidate number i on; outcomes[i] is
\* what build_player_index does for candidate number i
RECURSIVE ResolveFrom(_, _, _, _, _)
ResolveFrom(season_key, candidates, outcomes, i, last_error) ==
    LET tried == SubSeq(candidates, 1, i - 1)
    IN IF i > Len(candidates)
       THEN IF last_error # NoIndexError
            THEN Resolved("raised", NoSeason, last_error, tried)
            ELSE Resolved("returned", NoSeason, NoIndexError, tried)
       ELSE LET here == SubSeq(candidates, 1, i)
            IN CASE outcomes[i] = "index" -> Resolved("returned", candidates[i], NoIndexError, here)
                 [] outcomes[i] = "empty" ->
                        ResolveFrom(season_key, candidates, outcomes, i + 1, last_error)
                 [] IsHTTPError(outcomes[i]) ->
                        IF TryNextAfter404(outcomes[i], season_key)
                        THEN ResolveFrom(season_key, candidates, outcomes, i + 1,
                                         [kind |-> outcomes[i], at |-> i])
                        ELSE Resolved("raised", NoSeason, [kind |-> outcomes[i], at |-> i], here)
                 [] OTHER ->
                        ResolveFrom(season_key, candidates, outcomes, i + 1,
                                    [kind |-> outcomes[i], at |-> i])

resolve_player_index(season_key, years, outcomes) ==
    LET candidates == resolve_core_season_candidates(season_key, years)
    IN IF candidates = <<>>
       THEN Resolved("returned", NoSeason, NoIndexError, <<>>)
       ELSE ResolveFrom(season_key, candidates, outcomes, 1, NoIndexError)

\* the calls of resolve_player_index: a season, the season list of the
\* upstream, and what build_player_index does for each candidate
ResolveArgs ==
    UNION {{[season |-> current, years |-> SubSeq(SeasonYears, 1, k), outcomes |-> o] :
                o \in [1..k -> BuildOutcomes]} : k \in 0..MaxCandidates}
    \cup {[season |-> s, years |-> SeasonYears, outcomes |-> o] :
              s \in SeasonKeys \ {current}, o \in [1..1 -> BuildOutcomes]}

ResolvePlayerIndexCall ==
    /\ call.fn = "resolve_player_index"
    /\ call.results = <<>>
    /\ call' = [call EXCEPT !.results =
                    <<resolve_player_index(call.arg.season, call.arg.years, call.arg.outcomes)>>]
    /\ UNCHANGED <<cacheVars, healthVars, net, sysVars>>

teams == <<"t", "e", "a", "m", "s">>

athletes == <<"a", "t", "h", "l", "e", "t", "e", "s">>

\* the $ref of an item of the upstream: .../<segment>/<id>
Ref(segment, id) == <<"/">> \o segment \o <<"/">> \o id

\* the refs of the team list: teams 1 and 2, and two refs that
\* extract_id_from_ref finds an id in
TeamRefs ==
    {Ref(teams, <<"1">>), Ref(teams, <<"2">>), Ref(teams, <<"\\", "d">>),
     Ref(teams, <<"\\", "d", "d">>)}

\* the refs of athletes 7 and 8, and the ref of athlete 7 as the roster of
\* another season path gives it
AthleteRefs ==
    <<Ref(athletes, <<"7">>), Ref(athletes, <<"8">>), <<"/", "v">> \o Ref(athletes, <<"7">>)>>

\* what the roster request of a team does: it raises, or it returns refs
Rosters ==
    {[ok |-> FALSE, refs |-> <<>>], [ok |-> TRUE, refs |-> <<>>],
     [ok |-> TRUE, refs |-> <<AthleteRefs[1]>>],
     [ok |-> TRUE, refs |-> <<AthleteRefs[2], AthleteRefs[1]>>],
     [ok |-> TRUE, refs |-> <<AthleteRefs[3]>>]}

Teams == [ref : TeamRefs, roster : Rosters]

\* `return None` of extract_id_from_ref
NoId == <<>>

\* where re.search finds rf"/{segment}/(\\d+)" in ref: the pattern of a raw
\* string with two backslashes is a backslash character followed by one or
\* more letters d
MatchStarts(ref, segment) ==
    LET prefix == <<"/">> \o segment \o <<"/", "\\", "d">>
    IN {p \in 1..Len(ref) :
            /\ p + Len(prefix) - 1 <= Len(ref)
            /\ SubSeq(ref, p, p + Len(prefix) - 1) = prefix}

extract_id_from_ref(ref, segment) ==
    IF ref = <<>> \/ segment = <<>> \/ MatchStarts(ref, segment) = {}
    THEN NoId
    ELSE LET p == CHOOSE q \in MatchStarts(ref, segment) :
                      \A o \in MatchStarts(ref, segment) : q <= o
             from == p + Len(segment) + 2
             to == CHOOSE e \in (from + 1)..Len(ref) :
                       /\ \A j \in (from + 1)..e : ref[j] = "d"
                       /\ e = Len(ref) \/ ref[e + 1] # "d"
         IN SubSeq(ref, from, to)

\* `text.startswith('http://')`
StartsWithHttp(ref) ==
    Len(ref) >= 7 /\ SubSeq(ref, 1, 7) = <<"h", "t", "t", "p", ":", "/", "/">>

normalize_core_ref(ref) ==
    IF StartsWithHttp(ref)
    THEN <<"h", "t", "t", "p", "s", ":", "/", "/">> \o SubSeq(ref, 8, Len(ref))
    ELSE ref

\* the team_ids of build_player_index
RECURSIVE TeamIds(_)
TeamIds(team_refs) ==
    IF team_refs = <<>> THEN <<>>
    ELSE LET id == extract_id_from_ref(Head(team_refs), teams)
         IN (IF id # NoId THEN <<id>> ELSE <<>>) \o TeamIds(Tail(team_refs))

RefsOf(upstream) == [i \in 1..Len(upstream) |-> upstream[i].ref]

\* fetch_roster(team_id): the roster request for the team of that id, []
\* when it raises
fetch_roster(upstream, team_id) ==
    LET i == CHOOSE j \in 1..Len(upstream) :
                 /\ extract_id_from_ref(upstream[j].ref, teams) = team_id
                 /\ \A o \in 1..(j - 1) : extract_id_from_ref(upstream[o].ref, teams) # team_id
    IN IF upstream[i].roster.ok THEN upstream[i].roster.refs ELSE <<>>

\* the characters of the refs in the order of their code points
CodePoints ==
    <<"/", "0", "1", "2", "3", "4", "5", "6", "7", "8", "9", ":", "\\">> \o LowerLetters

CodePoint(c) == CHOOSE i \in 1..Len(CodePoints) : CodePoints[i] = c

\* a < b for two str
RECURSIVE StrLess(_, _)
StrLess(a, b) ==
    IF b = <<>> THEN FALSE
    ELSE IF a = <<>> THEN TRUE
    ELSE IF Head(a) # Head(b) THEN CodePoint(Head(a)) < CodePoint(Head(b))
    ELSE StrLess(Tail(a), Tail(b))

\* sort_key(entry): an id that extract_id_from_ref returned starts with a
\* backslash and is never all digits, so the key is the ref
sort_key(entry) == entry.ref

RECURSIVE InsertByKey(_, _)
InsertByKey(entry, sorted) ==
    IF sorted = <<>> THEN <<entry>>
    ELSE IF StrLess(sort_key(entry), sort_key(Head(sorted)))
         THEN <<entry>> \o sorted
         ELSE <<Head(sorted)>> \o InsertByKey(entry, Tail(sorted))

RECURSIVE SortByKey(_)
SortByKey(entries) ==
    IF entries = <<>> THEN <<>>
    ELSE InsertByKey(entries[Len(entries)], SortByKey(SubSeq(entries, 1, Len(entries) - 1)))

\* the loop over the refs of one completed future
RECURSIVE AddRefs(_, _)
AddRefs(refs, acc) ==
    IF refs = <<>> THEN acc
    ELSE LET ref == normalize_core_ref(Head(refs))
             athlete_id == extract_id_from_ref(ref, athletes)
             dedupe_key == IF athlete_id # NoId THEN athlete_id ELSE ref
         IN IF ref = <<>> \/ dedupe_key \in acc.seen
            THEN AddRefs(Tail(refs), acc)
            ELSE AddRefs(Tail(refs),
                         [seen |-> acc.seen \cup {dedupe_key},
                          athletes |-> Append(acc.athletes, [id |-> athlete_id, ref |-> ref])])

\* the loop over as_completed(futures): done is the order the futures
\* complete in
RECURSIVE Collect(_, _, _, _)
Collect(upstream, team_ids, done, acc) ==
    IF done = <<>> THEN acc
    ELSE Collect(upstream, team_ids, Tail(done),
                 AddRefs(fetch_roster(upstream, team_ids[Head(done)]), acc))

\* upstream: the teams of the season, each with its ref and what its roster
\* request does; the index, and the roster requests made
build_player_index(upstream, done) ==
    LET team_ids == TeamIds(RefsOf(upstream))
        acc == Collect(upstream, team_ids, done, [seen |-> {}, athletes |-> <<>>])
    IN [athletes |-> SortByKey(acc.athletes), fetched |-> team_ids, raised |-> FALSE]

Orders(n) == {f \in [1..n -> 1..n] : \A i, j \in 1..n : f[i] = f[j] => i = j}

\* the calls of build_player_index: the teams of the upstream and an order
\* of completion of the roster requests
BuildArgs ==
    UNION {{[upstream |-> u, done |-> d] : d \in Orders(Len(TeamIds(RefsOf(u))))} :
               u \in SeqsUpTo(Teams, MaxTeams)}

BuildPlayerIndexCall ==
    /\ call.fn = "build_player_index"
    /\ call.results = <<>>
    /\ call' = [call EXCEPT !.results = <<build_player_index(call.arg.upstream, call.arg.done)>>]
    /\ UNCHANGED <<cacheVars, healthVars, net, sysVars>>

(***************************************************************************)
(* The rows of a /players page: one build_player_row per selected entry on *)
(* a ThreadPoolExecutor, collected with executor.map.                      *)
(***************************************************************************)
\* the pages whose rows are built: the page, perPage, how many entries were
\* selected, and the offsets (from 1) of the entries whose profile resolves
RowArgs ==
    UNION {{[page |-> p, per_page |-> pp, entries |-> [i \in 1..k |-> (p - 1) * pp + i],
             resolvable |-> r] : p \in {1, 2}, pp \in {10, 50}, r \in SUBSET (1..k)} :
               k \in 0..MaxRows}

\* `return None` of build_player_row
NoRow == [ok |-> FALSE, rank |-> 0, athlete |-> 0]

\* build_player_row((rank, entry, schema, team_cache)); resolves: whether
\* get_player_profile(entry['ref']) returns a profile
build_player_row(rank, entry, resolves) ==
    IF ~resolves THEN NoRow ELSE [ok |-> TRUE, rank |-> rank, athlete |-> entry]

\* args_list[i]: start_rank + offset, with offset = i - 1
RankOf(arg, i) == ((arg.page - 1) * arg.per_page + 1) + (i - 1)

Range(seq) == {seq[i] : i \in DOMAIN seq}

\* the results the loop over the workers' results takes whatever finished
Yieldable_AsCompleted(finished, taken) == Range(finished) \ Range(taken)

\* the results `for row in executor.map(...)` can take next: the one of the
\* next element of args_list, once its worker has finished
Yieldable(finished, taken) == {i \in Range(finished) : i = Len(taken) + 1}

RowsCall(arg) ==
    [fn |-> "player_rows", arg |-> arg, results |-> <<>>,
     finished |-> <<>>, out |-> <<>>, taken |-> <<>>, sent |-> FALSE]

\* a worker finishes build_player_row for the entry at offset i
WorkerCompletes(i) ==
    /\ call.fn = "player_rows"
    /\ i \in DOMAIN call.arg.entries
    /\ i \notin Range(call.finished)
    /\ call' = [call EXCEPT
                    !.finished = Append(@, i),
                    !.out = Append(@, build_player_row(RankOf(call.arg, i), call.arg.entries[i],
                                                      i \in call.arg.resolvable))]
    /\ UNCHANGED <<cacheVars, healthVars, net, sysVars>>

\* the result of worker number n to finish
OutOf(n) == call.out[CHOOSE j \in DOMAIN call.finished : call.finished[j] = n]

\* one round of `for row in executor.map(build_player_row, args_list)`
TakeRow ==
    /\ call.fn = "player_rows"
    /\ \E i \in Yieldable(call.finished, call.taken) :
           call' = [call EXCEPT !.taken = Append(@, i),
                                !.results = IF OutOf(i).ok THEN Append(@, OutOf(i)) ELSE @]
    /\ UNCHANGED <<cacheVars, healthVars, net, sysVars>>

\* the loop is over: the payload with table.rows is sent
SendRows ==
    /\ call.fn = "player_rows"
    /\ ~call.sent
    /\ Len(call.taken) = Len(call.arg.entries)
    /\ call' = [call EXCEPT !.sent = TRUE]
    /\ UNCHANGED <<cacheVars, healthVars, net, sysVars>>

(***************************************************************************)
(* The page of /players: the page and perPage parameters,                  *)
(* select_player_entries and build_position_index.                         *)
(***************************************************************************)
max(a, b) == IF a >= b THEN a ELSE b

min(a, b) == IF a <= b THEN a ELSE b

\* str.upper(), one character
UpperChar(c) ==
    IF \E i \in 1..Len(LowerLetters) : LowerLetters[i] = c
    THEN UpperLetters[CHOOSE i \in 1..Len(LowerLetters) : LowerLetters[i] = c]
    ELSE c

Upper(str) == [i \in 1..Len(str) |-> UpperChar(str[i])]

\* str.strip()
RECURSIVE Strip(_)
Strip(str) ==
    IF str = <<>> THEN <<>>
    ELSE IF Head(str) = " " THEN Strip(Tail(str))
    ELSE IF str[Len(str)] = " " THEN Strip(SubSeq(str, 1, Len(str) - 1))
    ELSE str

\* a query parameter that int() accepts, and one it raises ValueError on
Number(n) == [ok |-> TRUE, n |-> n]

NotANumber == [ok |-> FALSE, n |-> 0]

\* `try: int(value) except ValueError: default`
IntOr(value, default) == IF value.ok THEN value.n ELSE default

PageValues == {NotANumber} \cup {Number(n) : n \in -1..4}

PerPageValues == {NotANumber} \cup {Number(n) : n \in {0, 9, 10, 11, 200, 201}}

QB == <<"Q", "B">>

WR == <<"W", "R">>

\* the position parameter of a request, after strip()
PositionValues == {<<"a", "l", "l">>, <<"A", "n", "y">>, <<"q", "b">>, WR, <<"K">>}

\* the values of the parameter that mean no filter
AllPositions ==
    {<<"a", "l", "l">>, <<"a", "n", "y">>,
     <<"a", "l", "l", " ", "p", "o", "s", "i", "t", "i", "o", "n", "s">>}

\* `'position': None` of an index entry, and of a profile that has none
NoPosition == <<>>

\* what the profiles of the upstream say of the position of athlete i, in
\* two upstreams
ProfilePositions ==
    {[i \in 1..(MaxAthletes + 1) |-> IF i % 3 = 1 THEN QB ELSE IF i % 3 = 2 THEN WR ELSE NoPosition],
     [i \in 1..(MaxAthletes + 1) |-> IF i % 4 = 0 THEN NoPosition ELSE <<"q", "b">>]}

\* index_data['athletes'] of an index of n athletes
Athletes(n) == [i \in 1..n |-> [id |-> i, position |-> NoPosition]]

\* resolve_position(entry)
resolve_position(entry, profiles) ==
    IF entry.position # NoPosition THEN entry ELSE [entry EXCEPT !.position = profiles[entry.id]]

\* position_index.get(position_key, []) of the index that
\* build_position_index builds
RECURSIVE PositionEntries(_, _, _)
PositionEntries(entries, profiles, position_key) ==
    IF entries = <<>> THEN <<>>
    ELSE LET entry == resolve_position(Head(entries), profiles)
         IN (IF entry.position # NoPosition /\ Upper(entry.position) = position_key
             THEN <<entry>> ELSE <<>>)
            \o PositionEntries(Tail(entries), profiles, position_key)

\* list[start:end] with 0 <= start <= end
Slice(list, start, end) == SubSeq(list, start + 1, min(end, Len(list)))

select_player_entries(entries, profiles, position_filter, page, per_page) ==
    LET filtered == IF position_filter = <<>> \/ Lower(position_filter) \in AllPositions
                    THEN entries
                    ELSE PositionEntries(entries, profiles, Upper(Strip(position_filter)))
        start == max(0, (page - 1) * per_page)
    IN [entries |-> Slice(filtered, start, start + per_page), total |-> Len(filtered)]

\* `max(1, (total + per_page - 1) // per_page)`
max_page_Floor(total, per_page) == max(1, total \div per_page)

\* `max(1, (total + per_page - 1) // per_page)`
max_page(total, per_page) == max(1, (total + per_page - 1) \div per_page)

\* the /players handler from its parameters to the page of the payload
PlayersPage(entries, profiles, position_value, page_value, per_page_value) ==
    LET page == max(1, IntOr(page_value, 1))
        per_page == max(10, min(200, IntOr(per_page_value, 50)))
        first == select_player_entries(entries, profiles, position_value, page, per_page)
        clamped == IF page > max_page(first.total, per_page)
                   THEN max_page(first.total, per_page) ELSE page
        selected == IF page > max_page(first.total, per_page)
                    THEN select_player_entries(entries, profiles, position_value, clamped, per_page)
                    ELSE first
    IN [page |-> clamped, perPage |-> per_page, total |-> selected.total,
        entries |-> selected.entries]

\* the requests for a page of players of an index that has athletes
PageArgs ==
    [n : 1..MaxAthletes, profiles : ProfilePositions, position : PositionValues,
     page : PageValues, perPage : PerPageValues]

PlayersPageCall ==
    /\ call.fn = "players_page"
    /\ call.results = <<>>
    /\ call' = [call EXCEPT !.results =
                    <<PlayersPage(Athletes(call.arg.n), call.arg.profiles, call.arg.position,
                                  call.arg.page, call.arg.perPage)>>]
    /\ UNCHANGED <<cacheVars, healthVars, net, sysVars>>

(***************************************************************************)
(* The game list of /games: build_games_for_league, build_games_for_all,   *)
(* filter_games and sort_games (parse_match without its sources, which     *)
(* are the subject of the /games with health section).                     *)
(***************************************************************************)
LIVE_MAX_AGE_SEC == 14400
ENDED_GRACE_SEC == 21600

\* now_ms() during a request
now_ms == now * 1000

\* the matches of the upstream: an NFL match, an old NBA match with the
\* same id, a coming NFL match without id, and a match of no configured
\* league without date; dates are in milliseconds (0: no date)
MatchPool ==
    {[id |-> <<"a">>, title |-> <<"N", "F", "L">>,
      category |-> <<"a", "m", "e", "r", "i", "c", "a", "n", "-", "f", "o", "o", "t", "b", "a", "l", "l">>,
      date |-> StartTime * 1000 - 1],
     [id |-> <<"a">>, title |-> <<"N", "B", "A">>,
      category |-> <<"b", "a", "s", "k", "e", "t", "b", "a", "l", "l">>,
      date |-> StartTime * 1000 - LIVE_MAX_AGE_SEC * 1000 - 1],
     [id |-> <<>>, title |-> <<"R", "e", "d", "Z", "o", "n", "e">>, category |-> <<>>,
      date |-> StartTime * 1000 + 1],
     [id |-> <<"c">>, title |-> <<"x">>, category |-> <<"f", "o", "o", "t", "b", "a", "l", "l">>,
      date |-> 0]}

\* a parse_match that takes a match of the live set for live at any age
parse_match_LiveSetIsLive(match, is_live, league) ==
    LET timestamp == IF match.date # 0 THEN match.date ELSE now_ms
    IN [matchId |-> match.id, league |-> league, timestamp |-> timestamp,
        isLive |-> is_live, isUpcoming |-> ~is_live /\ timestamp > now_ms,
        isEnded |-> ~is_live /\ timestamp <= (now_ms - ENDED_GRACE_SEC * 1000),
        from |-> IF is_live THEN "live" ELSE "all"]

\* the game parse_match builds; from: the set the match was taken from
parse_match(match, is_live, league) ==
    LET timestamp == IF match.date # 0 THEN match.date ELSE now_ms
        is_live_now == is_live /\ (now_ms - timestamp) <= LIVE_MAX_AGE_SEC * 1000
    IN [matchId |-> match.id, league |-> league, timestamp |-> timestamp,
        isLive |-> is_live_now, isUpcoming |-> ~is_live_now /\ timestamp > now_ms,
        isEnded |-> ~is_live_now /\ timestamp <= (now_ms - ENDED_GRACE_SEC * 1000),
        from |-> IF is_live THEN "live" ELSE "all"]

filter_matches_for_league(matches, league) ==
    IF league \in DOMAIN LEAGUE_CONFIGS
    THEN LET accepted(match) == is_league_match(match, league) IN SelectSeq(matches, accepted)
    ELSE <<>>

\* {m.get('id') for m in live_matches if m.get('id')}
LiveIds_Empty(live_matches) == {}

\* {m.get('id') for m in live_matches if m.get('id')}
LiveIds(live_matches) == {live_matches[i].id : i \in DOMAIN live_matches} \ {<<>>}

\* the sort keys of the game lists compare as tuples
RECURSIVE TupleLess(_, _)
TupleLess(a, b) ==
    IF a = <<>> \/ b = <<>> THEN FALSE
    ELSE IF Head(a) # Head(b) THEN Head(a) < Head(b)
    ELSE TupleLess(Tail(a), Tail(b))

\* not g.get('isLive'), as the integer it compares as
NotLive_Reversed(game) == IF game.isLive THEN 1 ELSE 0

\* not g.get('isLive'), as the integer it compares as
NotLive(game) == IF game.isLive THEN 0 ELSE 1

\* priority.get(g.get('league'), len(priority))
Priority(league) ==
    IF \E i \in DOMAIN PRIORITY_LEAGUES : PRIORITY_LEAGUES[i] = league
    THEN (CHOOSE i \in DOMAIN PRIORITY_LEAGUES : PRIORITY_LEAGUES[i] = league) - 1
    ELSE Len(PRIORITY_LEAGUES)

all == <<"a", "l", "l">>

\* the key functions: by: "timestamp" in the builders; in sort_games the
\* league parameter of the request
GameKey(game, by) ==
    IF by = <<"t", "i", "m", "e", "s", "t", "a", "m", "p">> THEN <<game.timestamp>>
    ELSE IF by = all THEN <<Priority(game.league), NotLive(game), game.timestamp>>
    ELSE <<NotLive(game), game.timestamp>>

\* sorted(games, key=...): stable
RECURSIVE InsertGame(_, _, _)
InsertGame(game, sorted, by) ==
    IF sorted = <<>> THEN <<game>>
    ELSE IF TupleLess(GameKey(game, by), GameKey(Head(sorted), by))
         THEN <<game>> \o sorted
         ELSE <<Head(sorted)>> \o InsertGame(game, Tail(sorted), by)

RECURSIVE SortGamesBy(_, _)
SortGamesBy(games, by) ==
    IF games = <<>> THEN <<>>
    ELSE InsertGame(games[Len(games)], SortGamesBy(SubSeq(games, 1, Len(games) - 1), by), by)

ByTimestamp(games) == SortGamesBy(games, <<"t", "i", "m", "e", "s", "t", "a", "m", "p">>)

build_games_for_league(snapshot, league) ==
    LET live_matches == filter_matches_for_league(snapshot.live, league)
        all_matches == filter_matches_for_league(snapshot.all, league)
        live_ids == LiveIds(live_matches)
        not_live(match) == match.id = <<>> \/ match.id \notin live_ids
        upcoming == SelectSeq(all_matches, not_live)
        live_games == [i \in 1..Len(live_matches) |-> parse_match(live_matches[i], TRUE, league)]
        upcoming_games == [i \in 1..Len(upcoming) |-> parse_match(upcoming[i], FALSE, league)]
    IN ByTimestamp(live_games) \o ByTimestamp(upcoming_games)

\* the loops of build_games_for_all: the matches that are kept, parsed
RECURSIVE GamesOfKnown(_, _, _)
GamesOfKnown(matches, is_live, skipped) ==
    IF matches = <<>> THEN <<>>
    ELSE LET match == Head(matches)
             league == identify_match_league(match)
         IN (IF (match.id # <<>> /\ match.id \in skipped) \/ league = NoLeague
             THEN <<>>
             ELSE <<parse_match(match, is_live, league)>>)
            \o GamesOfKnown(Tail(matches), is_live, skipped)

build_games_for_all(snapshot) ==
    LET live_ids == LiveIds(snapshot.live)
    IN ByTimestamp(GamesOfKnown(snapshot.live, TRUE, {}))
       \o ByTimestamp(GamesOfKnown(snapshot.all, FALSE, live_ids))

filter_games(games, filter_value) ==
    IF filter_value = "live" THEN LET live(g) == g.isLive IN SelectSeq(games, live)
    ELSE IF filter_value = "upcoming"
         THEN LET upcoming(g) == g.isUpcoming /\ ~g.isLive IN SelectSeq(games, upcoming)
         ELSE games

sort_games(games, league) == SortGamesBy(games, league)

\* the /games handler on a snapshot, without includeHealth: the list the
\* builder returns and the list of the payload
GamesView(snapshot, league, filter_value) ==
    LET built == IF league = all THEN build_games_for_all(snapshot)
                 ELSE build_games_for_league(snapshot, league)
    IN [built |-> built, games |-> sort_games(filter_games(built, filter_value), league)]

\* the requests: a snapshot, the league and the filter parameter
GamesArgs ==
    [live : SeqsUpTo(MatchPool, MaxMatches), all : SeqsUpTo(MatchPool, MaxMatches),
     league : {all, nfl, nba}, filter : {"all", "live", "upcoming"}]

GamesCall ==
    /\ call.fn = "games"
    /\ call.results = <<>>
    /\ call' = [call EXCEPT !.results =
                    <<GamesView([live |-> call.arg.live, all |-> call.arg.all],
                                call.arg.league, call.arg.filter)>>]
    /\ UNCHANGED <<cacheVars, healthVars, net, sysVars>>

(***************************************************************************)
(* /games/<slug>: find_game_by_slug over the game list.                    *)
(***************************************************************************)
\* the sorted sources of a game: none, one, and two in both orders; the id
\* of one of them has an upper-case letter
SourceLists ==
    {<<>>,
     <<[source |-> alpha, id |-> <<"a">>]>>,
     <<[source |-> alpha, id |-> <<"a">>], [source |-> bravo, id |-> <<"B">>]>>,
     <<[source |-> bravo, id |-> <<"B">>], [source |-> alpha, id |-> <<"a">>]>>}

\* the ids of the upstream matches: none, a plain one, and one that
\* sanitize_slug empties
SlugMatchIds == {<<>>, <<"m">>, <<"!">>}

\* the game parse_match builds from a match id and the listed sources: a
\* match with an id and no source gets the source admin
GameOf(match_id, listed) ==
    LET sources == IF listed = <<>> /\ match_id # <<>>
                   THEN <<[source |-> admin, id |-> match_id]>> ELSE listed
    IN [matchId |-> match_id,
        slug |-> IF sources # <<>> THEN sources[1].id ELSE match_id,
        currentSource |-> IF sources # <<>> THEN sources[1].source ELSE admin,
        sources |-> sources]

SlugGames == {GameOf(id, listed) : id \in SlugMatchIds, listed \in SourceLists}

\* the slug of the path, after unquote
Slugs == {<<>>, <<"a">>, <<"A">>, <<"b">>, <<"m">>, <<"!">>, <<"z">>}

\* `return None` of find_game_by_slug
NoGame == [matchId |-> <<>>, slug |-> <<>>, currentSource |-> <<>>, sources |-> <<>>]

NotFound == [found |-> FALSE, game |-> NoGame, itself |-> FALSE, at |-> 0]

\* the game of the list is returned as it is
SpecializedCopy_Itself(game, source) == game

\* copy.deepcopy(game) with slug and currentSource of the source
SpecializedCopy(game, source) ==
    [game EXCEPT !.slug = source.id, !.currentSource = source.source]

\* the loop over the sources of a game, from source number i on
RECURSIVE FindInSources(_, _, _, _)
FindInSources(game, at, i, normalized) ==
    IF i > Len(game.sources) THEN NotFound
    ELSE IF normalized = sanitize_slug(game.sources[i].id)
         THEN [found |-> TRUE, game |-> SpecializedCopy(game, game.sources[i]),
               itself |-> FALSE, at |-> at]
         ELSE FindInSources(game, at, i + 1, normalized)

\* the loop over the games, from game number at on
RECURSIVE FindFrom(_, _, _)
FindFrom(games, at, normalized) ==
    IF at > Len(games) THEN NotFound
    ELSE IF normalized \in {sanitize_slug(games[at].slug), sanitize_slug(games[at].matchId)}
         THEN [found |-> TRUE, game |-> games[at], itself |-> TRUE, at |-> at]
         ELSE LET by_source == FindInSources(games[at], at, 1, normalized)
              IN IF by_source.found THEN by_source ELSE FindFrom(games, at + 1, normalized)

\* found: a game is returned; itself: it is the object of the list; at: the
\* place in the list of the game it is or was copied from
find_game_by_slug(games, slug) ==
    IF slug = <<>> THEN NotFound ELSE FindFrom(games, 1, sanitize_slug(slug))

\* the /games/<slug> handler from the game list on: what it sends, and the
\* game list after the call
GameBySlug(games, slug) ==
    LET match == find_game_by_slug(games, slug)
    IN [match |-> match, games |-> games,
        status |-> IF ~match.found THEN 404 ELSE 200,
        error |-> IF ~match.found THEN "not_found" ELSE None]

SlugArgs == [games : SeqsUpTo(SlugGames, MaxSlugGames), slug : Slugs]

FindGameBySlugCall ==
    /\ call.fn = "find_game_by_slug"
    /\ call.results = <<>>
    /\ call' = [call EXCEPT !.results = <<GameBySlug(call.arg.games, call.arg.slug)>>]
    /\ UNCHANGED <<cacheVars, healthVars, net, sysVars>>

(***************************************************************************)
(* The persisted games snapshot (GameCache.__init__, _load, _save).  A     *)
(* JSON value is kept with its type; a file's text is the sequence of      *)
(* chunks json.dump writes, so that a file cut short by a crash is a       *)
(* proper prefix of a dump and json.load has something to reject.          *)
(***************************************************************************)
Null == [type |-> "null", num |-> 0, str |-> ""]
Integer(n) == [type |-> "int", num |-> n, str |-> ""]
String(s) == [type |-> "str", num |-> 0, str |-> s]
\* a list, by the number of its items
Array(n) == [type |-> "list", num |-> n, str |-> ""]

\* the keys of GameCache.data, in the order __init__ inserts them
DataKeys == <<"live", "all", "last_fetch", "last_error", "last_source">>

\* GameCache.data as __init__ leaves it
InitialData ==
    [k \in {DataKeys[i] : i \in 1..Len(DataKeys)} |->
        CASE k \in {"live", "all"} -> Array(0)
          [] k = "last_fetch" -> Integer(0)
          [] OTHER -> Null]

\* CACHE_PATH, within DATA_DIR
cache_path == "games_cache.json"

\* temp_path with the snapshot written in place
temp_path_InPlace(path) == path

\* temp_path = f"{self.cache_path}.tmp"
temp_path(path) == path \o ".tmp"

Files == {cache_path, temp_path(cache_path)}

\* one chunk of JSON text: a brace or bracket, a member of an object, or
\* bytes that are no JSON at all
Chunk(key, val) == [key |-> key, val |-> val]
Punctuation == {"{", "}", "[", "]", "#"}

NoFile == [exists |-> FALSE, readable |-> FALSE, text |-> <<>>]
File(text) == [exists |-> TRUE, readable |-> TRUE, text |-> text]
\* a file open() raises on
Unreadable == [exists |-> TRUE, readable |-> FALSE, text |-> <<>>]

\* json.dump(self.data, handle): the text, chunk by chunk
Dump(data) ==
    <<Chunk("{", Null)>>
    \o [i \in 1..Len(DataKeys) |-> Chunk(DataKeys[i], data[DataKeys[i]])]
    \o <<Chunk("}", Null)>>

\* json.load accepts the text as an object
IsObject(text) ==
    /\ Len(text) >= 2
    /\ text[1].key = "{"
    /\ text[Len(text)].key = "}"
    /\ \A i \in 2..(Len(text) - 1) : text[i].key \notin Punctuation

\* json.load accepts the text as an array (the empty one)
IsArray(text) == Len(text) = 2 /\ text[1].key = "[" /\ text[2].key = "]"

\* the dict json.load returns for an object: of a repeated key the last
\* member counts
Members(text) ==
    LET at == 2..(Len(text) - 1)
        keys == {text[i].key : i \in at}
        lastOf(k) == CHOOSE i \in at : text[i].key = k /\ \A j \in at : text[j].key = k => j <= i
    IN [k \in keys |-> text[lastOf(k)].val]

\* self.data.update(payload)
DictUpdate(data, payload) ==
    [k \in DOMAIN data \cup DOMAIN payload |-> IF k \in DOMAIN payload THEN payload[k] ELSE data[k]]

\* GameCache.__init__ with _load: the data after construction.  A missing
\* file returns early; open() or json.load raising is caught and logged; a
\* payload that is no dict is passed over
Load(file) ==
    IF ~file.exists THEN InitialData
    ELSE IF ~file.readable THEN InitialData
    ELSE IF IsObject(file.text) THEN DictUpdate(InitialData, Members(file.text))
    ELSE InitialData

\* the API bases a snapshot can come from
SnapshotSources == {"https://a", "https://b"}

\* what update stores: the two match lists by their lengths, the time, the base
Snapshot(live, upcoming, t, source) ==
    [k \in DOMAIN InitialData |->
        CASE k = "live" -> Array(live)
          [] k = "all" -> Array(upcoming)
          [] k = "last_fetch" -> Integer(t)
          [] k = "last_error" -> Null
          [] k = "last_source" -> String(source)]

\* the snapshots an earlier run of the process can have left on disk: a
\* fresh one and one long expired
EarlierSnapshots ==
    {Snapshot(n, n, t, "https://a") : n \in {0, 1}, t \in {StartTime - 1, 1}}

\* Prefixes of a text that are shorter than the text
ProperPrefixes(text) == {SubSeq(text, 1, n) : n \in 0..(Len(text) - 1)}

\* files that hold no snapshot: unreadable, no JSON (empty, cut short,
\* other bytes), JSON that is no object, and objects whose members are not
\* those of a snapshot
DamagedFiles ==
    {Unreadable, File(<<>>), File(<<Chunk("#", Null)>>),
     File(SubSeq(Dump(Snapshot(1, 1, 1, "https://a")), 1, 3)),
     File(<<Chunk("[", Null), Chunk("]", Null)>>),
     File(<<Chunk("{", Null), Chunk("last_fetch", String("abc")), Chunk("}", Null)>>),
     File(<<Chunk("{", Null), Chunk("live", Null), Chunk("last_fetch", Integer(StartTime)),
            Chunk("}", Null)>>)}

\* the file holds one complete snapshot: the dump of some data
HoldsSnapshot(file) ==
    /\ file.exists
    /\ file.readable
    /\ IsObject(file.text)
    /\ DOMAIN Members(file.text) = DOMAIN InitialData
    /\ file.text = Dump(Members(file.text))

\* how often the process is killed, and how many refreshes succeed
MaxCrashes == 2
MaxUpdates == 2

\* what build_match_cache returns: (snapshot, cache_age, from_cache, stale)
MatchCacheReturn(copied, cache_age, from_cache, stale) ==
    [answered |-> TRUE, snapshot |-> copied, cache_age |-> cache_age,
     from_cache |-> from_cache, stale |-> stale]

\* no request has returned
NoMatchCacheReturn ==
    [answered |-> FALSE, snapshot |-> InitialData, cache_age |-> 0,
     from_cache |-> FALSE, stale |-> FALSE]

\* the process before GameCache(CACHE_PATH) has run.  Of a request it keeps
\* the snapshot build_match_cache took, whether it has written to the disk,
\* and what it returned
NotStarted ==
    [pc |-> "init", data |-> InitialData, request |-> "none", crashes |-> 0, updates |-> 0,
     snapshot |-> InitialData, wrote |-> FALSE, returned |-> NoMatchCacheReturn]

\* python's int(x or 0) on a JSON value: the number, or the exception
IntOrZero(v) ==
    CASE v.type = "int" -> [ok |-> TRUE, n |-> v.num]
      [] v.type = "null" -> [ok |-> TRUE, n |-> 0]
      [] v.type = "str" -> [ok |-> v.str = "", n |-> 0]
      [] v.type = "list" -> [ok |-> v.num = 0, n |-> 0]

\* module load: GAME_CACHE = GameCache(CACHE_PATH)
StartProcess ==
    /\ proc.pc = "init"
    /\ proc' = [proc EXCEPT !.pc = "serving", !.data = Load(fs[cache_path])]
    /\ UNCHANGED fs
    /\ UNCHANGED exceptDisk

\* build_match_cache up to its refresh decision: the age computation raises
\* (nothing catches it, the request gets no response), the cache is valid,
\* or the upstream is asked
BeginMatchCache(force_refresh) ==
    /\ proc.pc = "serving"
    /\ proc.request \in {"none", "raised", "cached"}
    /\ LET last_fetch == IntOrZero(proc.data["last_fetch"])
           cache_age == now - last_fetch.n
           request == IF ~last_fetch.ok THEN "raised"
                      ELSE IF force_refresh \/ ~(cache_age < CACHE_TTL_SEC) THEN "refresh"
                      ELSE "cached"
       IN proc' = [proc EXCEPT !.request = request,
                               !.snapshot = proc.data,
                               !.wrote = FALSE,
                               !.returned = IF request = "cached"
                                            THEN MatchCacheReturn(proc.data, cache_age, TRUE, FALSE)
                                            ELSE NoMatchCacheReturn]
    /\ UNCHANGED fs
    /\ UNCHANGED exceptDisk

\* GameCache.update up to _save: the fields are assigned under the lock
BeginUpdate(live, upcoming, source) ==
    /\ proc.pc = "serving"
    /\ proc.request = "refresh"
    /\ proc.updates < MaxUpdates
    /\ proc' = [proc EXCEPT !.pc = "open", !.updates = @ + 1,
                            !.data = DictUpdate(@, Snapshot(live, upcoming, now, source))]
    /\ UNCHANGED fs
    /\ UNCHANGED exceptDisk

\* _save: open(temp_path, 'w') creates or empties the temporary file
OpenTemp ==
    /\ proc.pc = "open"
    /\ fs' = [fs EXCEPT ![temp_path(cache_path)] = File(<<>>)]
    /\ proc' = [proc EXCEPT !.pc = "dump", !.wrote = TRUE]
    /\ UNCHANGED exceptDisk

\* _save: json.dump writes the next chunk
WriteChunk ==
    /\ proc.pc = "dump"
    /\ LET temp == fs[temp_path(cache_path)]
           text == Dump(proc.data)
       IN /\ Len(temp.text) < Len(text)
          /\ fs' = [fs EXCEPT ![temp_path(cache_path)] =
                        File(Append(temp.text, text[Len(temp.text) + 1]))]
    /\ UNCHANGED proc
    /\ UNCHANGED exceptDisk

\* _save: the with block closes the handle
CloseTemp ==
    /\ proc.pc = "dump"
    /\ Len(fs[temp_path(cache_path)].text) = Len(Dump(proc.data))
    /\ proc' = [proc EXCEPT !.pc = "replace"]
    /\ UNCHANGED fs
    /\ UNCHANGED exceptDisk

\* _save: os.replace(temp_path, self.cache_path), one step of the file
\* system; update returns, build_match_cache takes its snapshot and returns
Replace ==
    /\ proc.pc = "replace"
    /\ fs' = [f \in Files |-> IF f = cache_path THEN fs[temp_path(cache_path)] ELSE NoFile]
    /\ proc' = [proc EXCEPT !.pc = "serving", !.request = "none", !.snapshot = proc.data,
                            !.returned = MatchCacheReturn(proc.data, 0, TRUE, FALSE)]
    /\ UNCHANGED exceptDisk

\* `except Exception as exc` of build_match_cache: mark_error, and the
\* snapshot taken before the refresh is returned, stale if it may be served
ExceptHandler(e) ==
    LET cache_age == now - IntOrZero(proc.snapshot["last_fetch"]).n
        usable == cache_age <= CACHE_STALE_SEC /\ proc.snapshot["live"].type # "null"
    IN [proc EXCEPT !.pc = "serving",
                    !.request = "none",
                    !.data = DictUpdate(@, [last_error |-> String(e)]),
                    !.returned = MatchCacheReturn(proc.snapshot, cache_age, usable, usable)]

\* the upstream fetch raised: GameCache.mark_error, nothing is saved
MarkError(e) ==
    /\ proc.pc = "serving"
    /\ proc.request = "refresh"
    /\ proc' = ExceptHandler(e)
    /\ UNCHANGED fs
    /\ UNCHANGED exceptDisk

\* what the operating system refuses a write with
SaveErrors == {"No space left on device"}

\* _save raises inside update: os.makedirs or open (nothing written yet),
\* json.dump (the with block closes the cut temporary file) or os.replace.
\* The five fields stay assigned; the exception reaches the handler of
\* build_match_cache
SaveFails(e) ==
    /\ proc.pc \in {"open", "dump", "replace"}
    /\ proc' = ExceptHandler(e)
    /\ UNCHANGED fs
    /\ UNCHANGED exceptDisk

\* the process is killed, at any point; the supervisor starts it again
Crash ==
    /\ proc.crashes < MaxCrashes
    /\ proc' = [NotStarted EXCEPT !.crashes = proc.crashes + 1, !.updates = proc.updates]
    /\ UNCHANGED fs
    /\ UNCHANGED exceptDisk

(***************************************************************************)
(* Request threads and the locks of the caches.  A request is the sequence *)
(* of steps its code takes on shared state: taking and releasing a lock,   *)
(* reading and writing a cache, calling the network.  Two threads of the   *)
(* ThreadingHTTPServer take their steps in any interleaving.  Of the       *)
(* caches' contents GAME_CACHE.data is kept field by field, and of         *)
(* STANDINGS_CACHES the objects constructed for one key.                   *)
(***************************************************************************)
RequestThreads == {"r1", "r2"}

\* how many requests one thread serves
MaxRequests == 2

NoThread == "nobody"

\* the locks: one per GameCache / HealthCache object, one per TTL cache
Locks == {"GAME_CACHE.lock", "HEALTH_CACHE.lock", "PLAYER_INDEX_LOCK", "PLAYER_PAGE_LOCK"}

\* the process-wide caches, and the lock that belongs to each; the module
\* defines no lock for the last three
SharedCaches ==
    {"GAME_CACHE", "HEALTH_CACHE", "PLAYER_INDEX_CACHE", "PLAYER_PAGE_CACHE",
     "STATS_CACHE", "PLAYER_LEADERS_CACHE", "STANDINGS_CACHES"}

LockOf(c) ==
    CASE c = "GAME_CACHE" -> "GAME_CACHE.lock"
      [] c = "HEALTH_CACHE" -> "HEALTH_CACHE.lock"
      [] c = "PLAYER_INDEX_CACHE" -> "PLAYER_INDEX_LOCK"
      [] c = "PLAYER_PAGE_CACHE" -> "PLAYER_PAGE_LOCK"
      [] OTHER -> "no lock"

\* one step of a request
Do(op, on, field, val) == [op |-> op, on |-> on, field |-> field, val |-> val]

Fields == <<"live", "all", "last_fetch", "last_error", "last_source">>

\* the section without its lock
Locked_NoLock(lock, body) == body

\* `with lock:` around the steps of body
Locked(lock, body) ==
    <<Do("acquire", lock, "", <<>>)>> \o body \o <<Do("release", lock, "", <<>>)>>

\* GameCache.snapshot: copy.deepcopy(self.data), field by field
GameCache_snapshot ==
    Locked("GAME_CACHE.lock", [i \in 1..Len(Fields) |-> Do("copy", "GAME_CACHE", Fields[i], <<>>)])

\* what the two threads' refreshes store: (live, all, last_fetch, last_source)
UpdateArgs(t) ==
    IF t = "r1" THEN [live |-> <<1>>, all |-> <<1>>, last_fetch |-> <<1>>, last_source |-> <<"https://a">>]
    ELSE [live |-> <<2>>, all |-> <<2>>, last_fetch |-> <<2>>, last_source |-> <<"https://b">>]

\* GameCache.update: the five assignments and _save
GameCache_update(t) ==
    Locked("GAME_CACHE.lock",
        <<Do("assign", "GAME_CACHE", "live", UpdateArgs(t).live),
          Do("assign", "GAME_CACHE", "all", UpdateArgs(t).all),
          Do("assign", "GAME_CACHE", "last_fetch", UpdateArgs(t).last_fetch),
          Do("assign", "GAME_CACHE", "last_error", <<None>>),
          Do("assign", "GAME_CACHE", "last_source", UpdateArgs(t).last_source),
          Do("save", "GAME_CACHE", "", <<>>)>>)

\* GameCache.mark_error
GameCache_mark_error(message) ==
    Locked("GAME_CACHE.lock", <<Do("assign", "GAME_CACHE", "last_error", <<message>>)>>)

\* fetch_json / probe_url: a call of the network
NetworkCall == <<Do("network", "", "", <<>>)>>

\* fetch_matches('/matches/live') and fetch_matches('/matches/all'): the
\* upstream answers with its matches of the moment, or the fetch raises
FetchMatches(outcome) == <<Do("network", "/matches", "", <<outcome>>)>>

\* build_match_cache with the upstream fetched inside the cache's lock
build_match_cache_FetchUnderLock(t, outcome) ==
    Locked("GAME_CACHE.lock",
        [i \in 1..Len(Fields) |-> Do("copy", "GAME_CACHE", Fields[i], <<>>)] \o NetworkCall)

\* build_match_cache: a valid cache is served, a refresh succeeds, or fails
build_match_cache(t, outcome) ==
    CASE outcome = "cached" -> GameCache_snapshot
      [] outcome = "ok" ->
            GameCache_snapshot \o FetchMatches(outcome) \o GameCache_update(t) \o GameCache_snapshot
      [] outcome = "error" ->
            GameCache_snapshot \o FetchMatches(outcome) \o GameCache_mark_error("timed out")

\* HealthCache.get, HealthCache.set
HealthCache_get == Locked("HEALTH_CACHE.lock", <<Do("read", "HEALTH_CACHE", "", <<>>)>>)
HealthCache_set == Locked("HEALTH_CACHE.lock", <<Do("write", "HEALTH_CACHE", "", <<>>)>>)

\* check_source_health with a probe
CheckSourceHealth == HealthCache_get \o NetworkCall \o HealthCache_set

\* get_ttl_cached / get_ttl_cached_with_age, set_ttl_cached
get_ttl_cached(c) == Locked(LockOf(c), <<Do("read", c, "", <<>>)>>)
set_ttl_cached(c) == Locked(LockOf(c), <<Do("write", c, "", <<>>)>>)

\* /players: a page cache hit, whose stored payload gets its meta rewritten;
\* or a miss, the index resolved from the upstream and both caches set
PlayersRequest(hit) ==
    IF hit
    THEN get_ttl_cached("PLAYER_PAGE_CACHE") \o <<Do("write", "PLAYER_PAGE_CACHE", "", <<>>)>>
    ELSE get_ttl_cached("PLAYER_PAGE_CACHE") \o get_ttl_cached("PLAYER_INDEX_CACHE")
         \o NetworkCall \o set_ttl_cached("PLAYER_INDEX_CACHE") \o set_ttl_cached("PLAYER_PAGE_CACHE")

\* get_cached_stats / get_cached_player_leaders, set_cached_stats /
\* set_cached_player_leaders
GetCached(c) == <<Do("read", c, "", <<>>)>>
SetCached(c) == <<Do("write", c, "", <<>>)>>

\* /stats and /leaders on a miss
UnlockedCacheRequest(c) == GetCached(c) \o NetworkCall \o SetCached(c)

\* get_standings_cache: look the key up, construct the cache on a miss
\* and register it
get_standings_cache ==
    <<Do("read", "STANDINGS_CACHES", "", <<>>),
      Do("construct", "STANDINGS_CACHES", "", <<>>),
      Do("write", "STANDINGS_CACHES", "", <<>>)>>

\* the requests a thread can serve
Requests(t) ==
    {build_match_cache(t, outcome) : outcome \in {"cached", "ok", "error"}}
    \cup {CheckSourceHealth}
    \cup {PlayersRequest(hit) : hit \in BOOLEAN}
    \cup {UnlockedCacheRequest(c) : c \in {"STATS_CACHE", "PLAYER_LEADERS_CACHE"}}
    \cup {get_standings_cache}

\* GameCache.data as __init__ leaves it, every value in a tuple of its own
EmptyGameData ==
    [live |-> <<0>>, all |-> <<0>>, last_fetch |-> <<0>>, last_error |-> <<None>>,
     last_source |-> <<None>>]

\* a snapshot no field has been copied into
NothingCopied == [k \in DOMAIN EmptyGameData |-> <<>>]

NoStep == Do("none", "", "", <<>>)

\* a thread between requests
IdleWorker ==
    [steps |-> <<>>, pc |-> 1, served |-> 0, did |-> NoStep, held |-> {},
     copying |-> NothingCopied, returned |-> NothingCopied, hit |-> FALSE, fetched |-> 0]

\* the step the thread takes next
NextStep(t) == IF workers[t].pc <= Len(workers[t].steps) THEN workers[t].steps[workers[t].pc] ELSE NoStep

\* the locks the thread holds
Held(t) == {l \in Locks : holder[l] = t}

\* the thread has taken its step, holding the locks it held
Stepped(t, step) == [workers[t] EXCEPT !.pc = @ + 1, !.did = step, !.held = Held(t)]

\* nothing locked, nothing cached, nobody at work
LocksIdle ==
    /\ holder = [l \in Locks |-> NoThread]
    /\ shared = [data |-> EmptyGameData, registered |-> FALSE, constructed |-> 0,
                 fetches |-> 0, installed |-> 0]
    /\ workers = [t \in RequestThreads |-> IdleWorker]
    /\ history = [updates |-> {}, marks |-> {}]

\* a request arrives on a thread that has answered its last one
BeginRequest(t, steps) ==
    /\ workers[t].pc > Len(workers[t].steps)
    /\ workers[t].served < MaxRequests
    /\ steps \in Requests(t)
    /\ workers' = [workers EXCEPT ![t] = [IdleWorker EXCEPT !.steps = steps,
                                                        !.served = workers[t].served + 1]]
    /\ UNCHANGED <<holder, shared, history>>
    /\ UNCHANGED exceptLocks

\* `with lock:` entered: the thread waits until the lock is free
Acquire(t) ==
    /\ NextStep(t).op = "acquire"
    /\ holder[NextStep(t).on] = NoThread
    /\ holder' = [holder EXCEPT ![NextStep(t).on] = t]
    /\ workers' = [workers EXCEPT ![t] = Stepped(t, NextStep(t))]
    /\ UNCHANGED <<shared, history>>
    /\ UNCHANGED exceptLocks

\* `with lock:` left
Release(t) ==
    /\ NextStep(t).op = "release"
    /\ holder' = [holder EXCEPT ![NextStep(t).on] = NoThread]
    /\ workers' = [workers EXCEPT ![t] = Stepped(t, NextStep(t))]
    /\ UNCHANGED <<shared, history>>
    /\ UNCHANGED exceptLocks

\* copy.deepcopy(self.data) copies one field; with the last one the
\* snapshot is what the call returns
Copy(t) ==
    /\ NextStep(t).op = "copy"
    /\ LET field == NextStep(t).field
           copied == [workers[t].copying EXCEPT ![field] = shared.data[field]]
       IN workers' = [workers EXCEPT ![t] =
                        [Stepped(t, NextStep(t)) EXCEPT
                            !.copying = copied,
                            !.returned = IF field = Fields[Len(Fields)] THEN copied ELSE @]]
    /\ UNCHANGED <<holder, shared, history>>
    /\ UNCHANGED exceptLocks

\* self.data[field] = value; the assignment of mark_error is the whole call.
\* With data['live'] the cache holds the matches this thread fetched
Assign(t) ==
    /\ NextStep(t).op = "assign"
    /\ LET data == [shared.data EXCEPT ![NextStep(t).field] = NextStep(t).val]
       IN /\ shared' = [shared EXCEPT !.data = data,
                                      !.installed = IF NextStep(t).field = "live"
                                                    THEN workers[t].fetched ELSE @]
          /\ history' = IF NextStep(t).field = "last_error" /\ NextStep(t).val # <<None>>
                        THEN [history EXCEPT !.marks = @ \cup {data}]
                        ELSE history
    /\ workers' = [workers EXCEPT ![t] = Stepped(t, NextStep(t))]
    /\ UNCHANGED holder
    /\ UNCHANGED exceptLocks

\* self._save() at the end of update: the data is as the update leaves it
Save(t) ==
    /\ NextStep(t).op = "save"
    /\ history' = [history EXCEPT !.updates = @ \cup {shared.data}]
    /\ workers' = [workers EXCEPT ![t] = Stepped(t, NextStep(t))]
    /\ UNCHANGED <<holder, shared>>
    /\ UNCHANGED exceptLocks

\* the thread calls the network and gets its answer; the matches the
\* upstream answers with are numbered in the order of its answers
Network(t) ==
    /\ NextStep(t).op = "network"
    /\ IF NextStep(t).on = "/matches" /\ NextStep(t).val = <<"ok">>
       THEN /\ shared' = [shared EXCEPT !.fetches = @ + 1]
            /\ workers' = [workers EXCEPT ![t] =
                             [Stepped(t, NextStep(t)) EXCEPT !.fetched = shared.fetches + 1]]
       ELSE /\ workers' = [workers EXCEPT ![t] = Stepped(t, NextStep(t))]
            /\ UNCHANGED shared
    /\ UNCHANGED <<holder, history>>
    /\ UNCHANGED exceptLocks

\* cache.get(key); of STANDINGS_CACHES the thread keeps whether it found
\* the key
Read(t) ==
    /\ NextStep(t).op = "read"
    /\ workers' = [workers EXCEPT ![t] =
                     [Stepped(t, NextStep(t)) EXCEPT
                        !.hit = IF NextStep(t).on = "STANDINGS_CACHES" THEN shared.registered ELSE @]]
    /\ UNCHANGED <<holder, shared, history>>
    /\ UNCHANGED exceptLocks

\* cache = StandingsCache(cache_path), unless the key was found
Construct(t) ==
    /\ NextStep(t).op = "construct"
    /\ shared' = IF workers[t].hit THEN shared ELSE [shared EXCEPT !.constructed = @ + 1]
    /\ workers' = [workers EXCEPT ![t] = Stepped(t, NextStep(t))]
    /\ UNCHANGED <<holder, history>>
    /\ UNCHANGED exceptLocks

\* cache[key] = value; STANDINGS_CACHES[cache_key] = cache unless the key
\* was found
Write(t) ==
    /\ NextStep(t).op = "write"
    /\ shared' = IF NextStep(t).on = "STANDINGS_CACHES" /\ ~workers[t].hit
                 THEN [shared EXCEPT !.registered = TRUE]
                 ELSE shared
    /\ workers' = [workers EXCEPT ![t] = Stepped(t, NextStep(t))]
    /\ UNCHANGED <<holder, history>>
    /\ UNCHANGED exceptLocks

(***************************************************************************)
(* The prober on every answer of the embed host: probe_url and             *)
(* check_source_health as calls of their own.                              *)
(***************************************************************************)
\* the HTTP statuses an embed host answers with
HttpStatuses == {200, 302, 399, 400, 401, 403, 404, 405, 500}

\* how long a request can take, in milliseconds
Latencies == {1, 2}

\* every answer to one request: a status (urlopen returns, or raises
\* HTTPError with the code), URLError, or an exception urllib lets through
ProbeAnswers ==
    {[status |-> s, latency_ms |-> l, exc |-> None] : s \in HttpStatuses, l \in Latencies}
    \cup {[status |-> NoStatus, latency_ms |-> l, exc |-> e] :
            l \in Latencies, e \in {"URLError", "TimeoutError"}}

\* probe_url(url) on the host's answers to HEAD and to GET
ProbeUrlCall ==
    /\ call.fn = "probe_url"
    /\ call.results = <<>>
    /\ call' = [call EXCEPT !.results = <<probe_url(call.arg)>>]
    /\ UNCHANGED <<cacheVars, healthVars, net, sysVars>>

\* check_source_health(source, slug)
CheckSourceHealthCall ==
    /\ call.fn = "check_source_health"
    /\ call.results = <<>>
    /\ call' = [call EXCEPT !.results =
                  <<check_source_health(call.arg.source, call.arg.slug, call.arg.behaviour)>>]
    /\ UNCHANGED <<cacheVars, healthVars, net, sysVars>>

(***************************************************************************)
(* Two /games requests with health at the same time.  Each runs            *)
(* apply_health_to_games on the sources of its game, source by source;     *)
(* between HEALTH_CACHE.get and HEALTH_CACHE.set of one thread (while its   *)
(* probe is on the network) the other thread takes its steps.              *)
(***************************************************************************)
\* one budget for the whole module
BudgetOf_ModuleLevel(t) == "r1"

\* `budget = {'count': MAX_HEALTH_CHECKS}` is a local of
\* apply_health_to_games: every call has a dict of its own
BudgetOf(t) == t

\* the sources of the game a request annotates
BudgetSourceLists ==
    LET a == [source |-> admin, id |-> <<"x">>]
        d == [source |-> delta, id |-> <<"x">>]
    IN {<<a>>, <<a, d>>, <<d, a>>}

\* a thread with no request
NoHealthRequest ==
    [pc |-> "idle", sources |-> <<>>, i |-> 1, log |-> <<>>, served |-> 0]

\* nothing in flight
BudgetIdle ==
    /\ budget = [t \in RequestThreads |-> 0]
    /\ inflight = [t \in RequestThreads |-> NoHealthRequest]

\* apply_health_to_games(games) begins: a fresh budget
BeginHealth(t, sources) ==
    /\ inflight[t].pc \in {"idle", "done"}
    /\ inflight[t].served < MaxRequests
    /\ sources \in BudgetSourceLists
    /\ budget' = [budget EXCEPT ![BudgetOf(t)] = MAX_HEALTH_CHECKS]
    /\ inflight' = [inflight EXCEPT ![t] = [NoHealthRequest EXCEPT !.pc = "lookup", !.sources = sources,
                                               !.served = inflight[t].served + 1]]
    /\ UNCHANGED <<now, ticks, MAX_HEALTH_CHECKS, healthCache, hreq, last>>
    /\ UNCHANGED exceptBudget

\* annotate_sources at the next source: HEALTH_CACHE.get(key), then the
\* budget test; a cached record or the synthetic one is attached at once
Lookup(t) ==
    /\ inflight[t].pc = "lookup"
    /\ inflight[t].i <= Len(inflight[t].sources)
    /\ LET src == inflight[t].sources[inflight[t].i]
           hit == HealthCacheHas(healthCache, HealthKey(src.source, src.id), now)
       IN inflight' = [inflight EXCEPT ![t] =
             IF hit THEN [@ EXCEPT !.i = @ + 1, !.log = Append(@, "cached")]
             ELSE IF BudgetLeft(budget[BudgetOf(t)]) THEN [@ EXCEPT !.pc = "probing"]
             ELSE [@ EXCEPT !.i = @ + 1, !.log = Append(@, "exhausted")]]
    /\ UNCHANGED budget
    /\ UNCHANGED <<now, ticks, MAX_HEALTH_CHECKS, healthCache, hreq, last>>
    /\ UNCHANGED exceptBudget

\* check_source_health has returned: HEALTH_CACHE.set(key, cached) and
\* checks_budget['count'] -= 1
Probe(t, behaviour) ==
    /\ inflight[t].pc = "probing"
    /\ LET src == inflight[t].sources[inflight[t].i]
           payload == check_source_health(src.source, src.id, behaviour)
       IN healthCache' = HealthCacheSet(healthCache, HealthKey(src.source, src.id), payload, now)
    /\ budget' = [budget EXCEPT ![BudgetOf(t)] = Spend(@)]
    /\ inflight' = [inflight EXCEPT ![t] = [@ EXCEPT !.pc = "lookup", !.i = @ + 1,
                                                     !.log = Append(@, "probed")]]
    /\ UNCHANGED <<now, ticks, MAX_HEALTH_CHECKS, hreq, last>>
    /\ UNCHANGED exceptBudget

\* the loop is over: apply_health_to_games returns
EndHealth(t) ==
    /\ inflight[t].pc = "lookup"
    /\ inflight[t].i > Len(inflight[t].sources)
    /\ inflight' = [inflight EXCEPT ![t].pc = "done"]
    /\ UNCHANGED budget
    /\ UNCHANGED <<now, ticks, MAX_HEALTH_CHECKS, healthCache, hreq, last>>
    /\ UNCHANGED exceptBudget

(***************************************************************************)
(* The flags of a game over time.  The games cache keeps the matches as    *)
(* the upstream sent them; every request builds its games from them with   *)
(* parse_match at the time of the request.  One match of the snapshot is   *)
(* followed over the requests that read it while the clock advances.       *)
(***************************************************************************)
\* how many requests read the match, and how often the clock advances
MaxReads == 3
MaxFlagTicks == 3

\* the dates of the matches, in milliseconds: none, the start of the
\* process, and a millisecond before and after it
FlagDates == {0, StartTime * 1000 - 1, StartTime * 1000, StartTime * 1000 + 1}

FlagMatches == {[id |-> <<"a">>, title |-> <<"N", "F", "L">>, category |-> <<>>, date |-> d] :
                   d \in FlagDates}

\* the clock advances to the ends of the live window and of the grace
\* period of a match that started with the process
FlagJumps ==
    {1, LIVE_MAX_AGE_SEC - 1, LIVE_MAX_AGE_SEC, ENDED_GRACE_SEC - LIVE_MAX_AGE_SEC - 1,
     ENDED_GRACE_SEC - LIVE_MAX_AGE_SEC}

\* a request builds the game of the match: parse_match, called by
\* build_games_for_league with is_live=True for the matches of the live set
\* and is_live=False for the others
ParseMatchCall ==
    /\ call.fn = "parse_match"
    /\ Len(call.results) < MaxReads
    /\ call' = [call EXCEPT !.results =
                    Append(@, [at |-> now_ms,
                               game |-> parse_match(call.arg.match, call.arg.is_live, nfl)])]
    /\ UNCHANGED <<cacheVars, healthVars, net, sysVars>>

\* time passes between two requests
FlagTick(d) ==
    /\ call.fn = "parse_match"
    /\ ticks < MaxFlagTicks
    /\ now' = now + d
    /\ ticks' = ticks + 1
    /\ UNCHANGED <<servedVars, healthVars, fnVars, sysVars>>

(***************************************************************************)
(* The fan-outs: the roster requests of build_player_index, the profile    *)
(* requests of build_position_index and the rows of /players each run on a *)
(* ThreadPoolExecutor of their own.  The executor starts a thread when a   *)
(* task is submitted, no thread is idle and fewer than max_workers threads *)
(* exist; a thread runs one task at a time.  Tasks are counted, not named. *)
(***************************************************************************)
PLAYER_FETCH_WORKERS == 12

\* how many items a fan-out has at most
MaxItems == 14

FanOuts == {"build_player_index", "build_position_index", "players_rows"}

\* a pool with a thread for every item
PoolSize_PerItem(items) == max(1, items)

\* max_workers = max(1, min(PLAYER_FETCH_WORKERS, len(items)))
PoolSize(items) == max(1, min(PLAYER_FETCH_WORKERS, items))

\* a fan-out over that many team ids, athletes or rows, before its executor
\* exists
PoolCall(fanout, items) ==
    [fn |-> "pool", arg |-> [fanout |-> fanout, items |-> items], results |-> <<>>,
     max_workers |-> 0, submitted |-> 0, threads |-> 0, running |-> 0, finished |-> 0]

\* the tasks submitted and not yet taken by a thread
Queued == call.submitted - call.running - call.finished

\* `if team_ids:` / `if not athletes: return` / `if args_list:` passed:
\* ThreadPoolExecutor(max_workers=max_workers)
CreatePool ==
    /\ call.fn = "pool"
    /\ call.max_workers = 0
    /\ call.arg.items > 0
    /\ call' = [call EXCEPT !.max_workers = PoolSize(call.arg.items)]
    /\ UNCHANGED <<cacheVars, healthVars, net, sysVars>>

\* executor.submit(...) for the next item (executor.map submits them all
\* the same way): a thread is started unless one is idle or max_workers
\* threads exist
Submit ==
    /\ call.fn = "pool"
    /\ call.max_workers > 0
    /\ call.submitted < call.arg.items
    /\ call' = [call EXCEPT
                    !.submitted = @ + 1,
                    !.threads = IF call.threads - call.running = 0 /\ call.threads < call.max_workers
                                THEN @ + 1 ELSE @]
    /\ UNCHANGED <<cacheVars, healthVars, net, sysVars>>

\* an idle thread takes a task from the queue: fetch_roster,
\* resolve_position or build_player_row begins
TaskStarts ==
    /\ call.fn = "pool"
    /\ Queued > 0
    /\ call.running < call.threads
    /\ call' = [call EXCEPT !.running = @ + 1]
    /\ UNCHANGED <<cacheVars, healthVars, net, sysVars>>

\* the task returns
TaskEnds ==
    /\ call.fn = "pool"
    /\ call.running > 0
    /\ call' = [call EXCEPT !.running = @ - 1, !.finished = @ + 1]
    /\ UNCHANGED <<cacheVars, healthVars, net, sysVars>>

\* the with block of the executor is left: every task has returned
ClosePool ==
    /\ call.fn = "pool"
    /\ call.results = <<>>
    /\ call.max_workers > 0
    /\ call.finished = call.arg.items
    /\ call' = [call EXCEPT !.results = <<call.finished>>]
    /\ UNCHANGED <<cacheVars, healthVars, net, sysVars>>

(***************************************************************************)
(* The specifications.                                                     *)
(***************************************************************************)
CachesIdle ==
    /\ now = StartTime
    /\ ticks = 0
    /\ cache = EmptyCacheData
    /\ pageCache = NoEntry
    /\ indexCache = NoEntry
    /\ leadersCache = NoEntry
    /\ th = [t \in Threads |-> IdleThread]
    /\ resp = [t \in Threads |-> NoResponse]

\* no files, no process
DiskIdle ==
    /\ fs = [f \in Files |-> NoFile]
    /\ proc = NotStarted

SysIdle ==
    /\ DiskIdle
    /\ LocksIdle
    /\ BudgetIdle

HealthIdle ==
    /\ healthCache = <<>>
    /\ hreq = IdleRequest
    /\ last = NoCall

\* the caches under load on one route
Init ==
    /\ CachesIdle
    /\ route \in Routes
    /\ MAX_HEALTH_CHECKS = MaxChecks
    /\ HealthIdle
    /\ call = NoPureCall
    /\ net = NoFetch
    /\ SysIdle

Next ==
    \/ \E d \in Jumps(route) : Tick(d)
    \/ \E t \in Threads :
         \/ \E force \in BOOLEAN, path \in Paths("games") : BeginSnapshotRequest(t, force, path)
         \/ \E payload \in {0, 1} : RefreshSucceeds(t, payload)
         \/ ReturnRefreshed(t)
         \/ \E e \in Errors : RefreshFails(t, e)
         \/ \E force \in BOOLEAN : BeginPlayers(t, force)
         \/ \E outcome \in FetchOutcomes, e \in Errors : ResolveIndex(t, outcome, e)
         \/ RespondPlayers(t)
         \/ \E force \in BOOLEAN : BeginLeaders(t, force)
         \/ \E outcome \in FetchOutcomes, e \in Errors : RespondLeaders(t, outcome, e)

Spec == Init /\ [][Next]_vars

\* /games requests with and without health
InitHealth ==
    /\ CachesIdle
    /\ route = "games"
    /\ MAX_HEALTH_CHECKS \in 0..MaxChecks
    /\ HealthIdle
    /\ call = NoPureCall
    /\ net = NoFetch
    /\ SysIdle

NextHealth ==
    \/ \E d \in HealthJumps : HealthTick(d)
    \/ \E include_health \in BOOLEAN : BeginGames(include_health)
    \/ \E match \in Matches : ParseGame(match)
    \/ \E behaviours \in [1..MaxSources -> GameProbeBehaviours] : AnnotateGame(behaviours)
    \/ FinishGames

SpecHealth == InitHealth /\ [][NextHealth]_vars

\* the ranker on every list of sources
InitSort ==
    /\ CachesIdle
    /\ route = "games"
    /\ MAX_HEALTH_CHECKS = MaxChecks
    /\ HealthIdle
    /\ call \in {PureCall("sort_sources", sources) : sources \in SeqsUpTo(SortSources, MaxSortLen)}
    /\ net = NoFetch
    /\ SysIdle

NextSort == SortSourcesCall

SpecSort == InitSort /\ [][NextSort]_vars

\* the classifier on every match
InitClassify ==
    /\ CachesIdle
    /\ route = "games"
    /\ MAX_HEALTH_CHECKS = MaxChecks
    /\ HealthIdle
    /\ call \in {PureCall("is_league_match", [match |-> m, league |-> l]) :
                    m \in ClassifierMatches, l \in AskedLeagues}
               \cup {PureCall("identify_match_league", m) : m \in ClassifierMatches}
    /\ net = NoFetch
    /\ SysIdle

NextClassify ==
    \/ IsLeagueMatchCall
    \/ IdentifyMatchLeagueCall
    \/ BetweenCalls

SpecClassify == InitClassify /\ [][NextClassify]_vars

\* fetch_matches over every configuration of bases and every upstream;
\* every step of the call is taken in the end (nothing else runs on the
\* thread, and urlopen has a timeout)
InitFetch ==
    /\ CachesIdle
    /\ route = "games"
    /\ MAX_HEALTH_CHECKS = MaxChecks
    /\ HealthIdle
    /\ call = NoPureCall
    /\ net \in {StartFetch(bases) : bases \in BaseLists}
    /\ SysIdle

SpecFetch == InitFetch /\ [][NextFetch]_vars /\ WF_vars(NextFetch)

\* the player index and the /players page on every input
InitPlayers ==
    /\ CachesIdle
    /\ route = "players"
    /\ MAX_HEALTH_CHECKS = MaxChecks
    /\ HealthIdle
    /\ call \in {PureCall("resolve_player_index", a) : a \in ResolveArgs}
               \cup {PureCall("build_player_index", a) : a \in BuildArgs}
               \cup {RowsCall(a) : a \in RowArgs}
               \cup {PureCall("players_page", a) : a \in PageArgs}
    /\ net = NoFetch
    /\ SysIdle

NextPlayers ==
    \/ ResolvePlayerIndexCall
    \/ BuildPlayerIndexCall
    \/ \E i \in 1..MaxRows : WorkerCompletes(i)
    \/ TakeRow
    \/ SendRows
    \/ PlayersPageCall

SpecPlayers == InitPlayers /\ [][NextPlayers]_vars

\* the game list on every snapshot
InitGames ==
    /\ CachesIdle
    /\ route = "games"
    /\ MAX_HEALTH_CHECKS = MaxChecks
    /\ HealthIdle
    /\ call \in {PureCall("games", a) : a \in GamesArgs}
               \cup {PureCall("find_game_by_slug", a) : a \in SlugArgs}
    /\ net = NoFetch
    /\ SysIdle

NextGames ==
    \/ GamesCall
    \/ FindGameBySlugCall

SpecGames == InitGames /\ [][NextGames]_vars

\* one match of the snapshot, from the live set or from the other, read by
\* requests at different times
InitFlags ==
    /\ CachesIdle
    /\ route = "games"
    /\ MAX_HEALTH_CHECKS = MaxChecks
    /\ HealthIdle
    /\ call \in {PureCall("parse_match", [match |-> mt, is_live |-> l]) :
                    mt \in FlagMatches, l \in BOOLEAN}
    /\ net = NoFetch
    /\ SysIdle

NextFlags ==
    \/ ParseMatchCall
    \/ \E d \in FlagJumps : FlagTick(d)

SpecFlags == InitFlags /\ [][NextFlags]_vars

\* every fan-out over every number of items
InitPool ==
    /\ CachesIdle
    /\ route = "players"
    /\ MAX_HEALTH_CHECKS = MaxChecks
    /\ HealthIdle
    /\ call \in {PoolCall(f, n) : f \in FanOuts, n \in 0..MaxItems}
    /\ net = NoFetch
    /\ SysIdle

NextPool ==
    \/ CreatePool
    \/ Submit
    \/ TaskStarts
    \/ TaskEnds
    \/ ClosePool

SpecPool == InitPool /\ [][NextPool]_vars

\* the process over starts, refreshes and crashes, on every file it can find
InitDisk ==
    /\ CachesIdle
    /\ route = "games"
    /\ MAX_HEALTH_CHECKS = MaxChecks
    /\ HealthIdle
    /\ call = NoPureCall
    /\ net = NoFetch
    /\ fs \in {[f \in Files |-> IF f = cache_path THEN file ELSE temp] :
                 file \in {NoFile} \cup {File(Dump(d)) : d \in EarlierSnapshots} \cup DamagedFiles,
                 temp \in {NoFile, File(SubSeq(Dump(Snapshot(1, 1, 1, "https://a")), 1, 2))}}
    /\ proc = NotStarted
    /\ LocksIdle
    /\ BudgetIdle

NextDisk ==
    \/ StartProcess
    \/ \E force_refresh \in BOOLEAN : BeginMatchCache(force_refresh)
    \/ \E live \in {0, 1}, source \in SnapshotSources : BeginUpdate(live, 1, source)
    \/ OpenTemp
    \/ WriteChunk
    \/ CloseTemp
    \/ Replace
    \/ \E e \in Errors : MarkError(e)
    \/ \E e \in SaveErrors : SaveFails(e)
    \/ Crash

SpecDisk == InitDisk /\ [][NextDisk]_vars

\* two request threads on the shared caches
InitLocks ==
    /\ CachesIdle
    /\ route = "games"
    /\ MAX_HEALTH_CHECKS = MaxChecks
    /\ HealthIdle
    /\ call = NoPureCall
    /\ net = NoFetch
    /\ DiskIdle
    /\ LocksIdle
    /\ BudgetIdle

NextLocks ==
    \E t \in RequestThreads :
        \/ \E steps \in Requests(t) : BeginRequest(t, steps)
        \/ Acquire(t)
        \/ Release(t)
        \/ Copy(t)
        \/ Assign(t)
        \/ Save(t)
        \/ Network(t)
        \/ Read(t)
        \/ Construct(t)
        \/ Write(t)

SpecLocks == InitLocks /\ [][NextLocks]_vars

\* the prober on every pair of answers
InitProbe ==
    /\ CachesIdle
    /\ route = "games"
    /\ MAX_HEALTH_CHECKS = MaxChecks
    /\ HealthIdle
    /\ call \in {PureCall("probe_url", <<h, g>>) : h \in ProbeAnswers, g \in ProbeAnswers}
               \cup {PureCall("check_source_health", [source |-> admin, slug |-> slug, behaviour |-> <<h, g>>]) :
                        slug \in {<<"x">>, <<"!">>}, h \in ProbeAnswers, g \in ProbeAnswers}
    /\ net = NoFetch
    /\ SysIdle

NextProbe ==
    \/ ProbeUrlCall
    \/ CheckSourceHealthCall

SpecProbe == InitProbe /\ [][NextProbe]_vars

\* two requests with health at a time, on one health cache
InitBudget ==
    /\ CachesIdle
    /\ route = "games"
    /\ MAX_HEALTH_CHECKS \in 0..MaxChecks
    /\ HealthIdle
    /\ call = NoPureCall
    /\ net = NoFetch
    /\ SysIdle

NextBudget ==
    \/ \E d \in HealthJumps : HealthTick(d)
    \/ \E t \in RequestThreads :
         \/ \E sources \in BudgetSourceLists : BeginHealth(t, sources)
         \/ Lookup(t)
         \/ \E behaviour \in GameProbeBehaviours : Probe(t, behaviour)
         \/ EndHealth(t)

SpecBudget == InitBudget /\ [][NextBudget]_vars


(***************************************************************************)
(* Properties of the snapshot caches and of the response envelopes.        *)
(***************************************************************************)
Returned(t) == route \in SnapshotRoutes /\ th[t].pc = "done"

RefreshFailed(t) == th[t].attempted /\ th[t].err # None

\* a refresh has succeeded before: the snapshot holds a value it was given
PriorValueExists(snapshot) == snapshot.last_fetch # 0

\* a prior value the route is willing to serve: any list for games, a
\* non-empty one for teams and standings
PriorValueUsable(r, snapshot) ==
    PriorValueExists(snapshot) /\ (r # "games" => snapshot.payload # 0)

\* the call of thread t served the snapshot it took on entry, flagged stale
ServedStale(t) ==
    /\ th[t].ok
    /\ th[t].stale
    /\ th[t].snap.payload = cache.payload
    /\ th[t].snap.last_fetch = cache.last_fetch
    /\ resp[t].status # 502
    /\ resp[t].status = 200 =>
         resp[t].meta["stale"] /\ resp[t].meta["cacheAgeSec"] = th[t].age0

ReportedFailure(t) == ~th[t].ok /\ ~th[t].stale /\ resp[t].status = 502

C2_FreshIffWithinTtl ==
    \A t \in Threads :
        (route \in SnapshotRoutes /\ th[t].pc # "idle" /\ ~th[t].force) =>
            (~th[t].attempted <=> th[t].age0 <= CacheTtl(route))

\* C3: whenever stale=true is returned, the value returned has age > ttl and
\* age <= staleTtl and a refresh attempt of the same call failed.
C3_StaleOnlyBeyondTtl ==
    \A t \in Threads :
        (Returned(t) /\ th[t].stale) =>
            /\ th[t].age > CacheTtl(route)
            /\ th[t].age <= CacheStaleTtl(route)
            /\ RefreshFailed(t)

\* C4: the service-unavailable response carries as its message the error of
\* the refresh attempt that failed in that request.
C4_MessageIsThisFailure ==
    \A t \in Threads :
        (Returned(t) /\ resp[t].status = 502) => resp[t].message = th[t].err

\* C5: every 200 response carries meta.cacheAgeSec (an integer) and
\* meta.stale (a boolean); /players and /leaders also carry meta.fromCache.
C5_MetaEnvelope ==
    \A t \in Threads :
        resp[t].status = 200 =>
            /\ {"cacheAgeSec", "stale"} \subseteq DOMAIN resp[t].meta
            /\ resp[t].meta["cacheAgeSec"] \in Int
            /\ resp[t].meta["stale"] \in BOOLEAN
            /\ route \in {"players", "leaders"} => "fromCache" \in DOMAIN resp[t].meta

(***************************************************************************)
(* Properties of the source health prober and of /games with health.       *)
(***************************************************************************)
Min(a, b) == IF a < b THEN a ELSE b

\* the (name, id) pairs of a list of sources are pairwise different
DistinctPairs(sources) ==
    \A i, j \in 1..Len(sources) : i # j => sources[i] # sources[j]

\* C6 (as stated): when annotate_sources is called with health on n sources
\* with distinct (name, id) pairs and no unexpired health-cache record, with
\* a budget of b, exactly the first min(n, b) sources receive a live probe
\* and the others carry the synthetic record (status unknown, error
\* health_check_budget_exhausted in the code's words).
C6_BudgetExhaustion ==
    (last.sources # <<>> /\ last.clean /\ DistinctPairs(last.sources)) =>
        LET n == Len(last.sources)
            k == Min(n, last.count0)
        IN \A i \in 1..n :
              /\ (i <= k) => (last.probed[i] /\ ~last.synthetic[i])
              /\ (i > k) => (~last.probed[i] /\ last.synthetic[i])

\* C7: while one /games or /games/<slug> request is served, the number of
\* live network probes never exceeds MAX_HEALTH_CHECKS, whatever the games,
\* their sources and the content of the health cache.
C7_ProbesWithinBudget == hreq.probes <= MAX_HEALTH_CHECKS

\* a request with health that has used its whole budget of more than one
\* probe and then met a source it could not check any more
C7_Witness ==
    /\ hreq.pc = "done"
    /\ hreq.include_health
    /\ hreq.games = MaxGames
    /\ MAX_HEALTH_CHECKS > 1
    /\ hreq.probes = MAX_HEALTH_CHECKS
    /\ \E i \in 1..Len(last.synthetic) : last.synthetic[i]

(***************************************************************************)
(* Properties of the ranker.                                               *)
(***************************************************************************)
\* the key of the ranking as the specification gives it: up 0, unknown 1,
\* down 2 (a source without a status ranks as unknown), then the position of
\* the name in the preference list, unlisted names after all listed ones
RankingKey(source) ==
    LET status == source.health.status
        listed == <<admin, delta, charlie, echo, golf, alpha, bravo>>
        before == {i \in 1..7 : \A j \in 1..i : listed[j] # source.source}
    IN <<IF status = "up" THEN 0 ELSE IF status = "down" THEN 2 ELSE 1,
         Cardinality(before)>>

KeyBefore(a, b) == a[1] < b[1] \/ (a[1] = b[1] /\ a[2] < b[2])

\* C8: sort_sources returns a permutation of its input in non-decreasing
\* order of (healthScore, preferenceIndex), sources with equal keys in their
\* input order; so every source that is up precedes every source that is
\* down, whatever their names.
C8_StableRanking ==
    (call.fn = "sort_sources" /\ call.results # <<>>) =>
        LET input == call.arg
            output == call.results[1]
            n == Len(input)
        IN /\ Len(output) = n
           /\ \E p \in Permutations(1..n) :
                 /\ \A i \in 1..n : output[i] = input[p[i]]
                 /\ \A i, j \in 1..n :
                       i < j =>
                          /\ ~KeyBefore(RankingKey(output[j]), RankingKey(output[i]))
                          /\ RankingKey(output[i]) = RankingKey(output[j]) => p[i] < p[j]
           /\ \A i, j \in 1..n :
                 (output[i].health.status = "up" /\ output[j].health.status = "down") => i < j

\* admin/down, bravo/up was sorted: bravo comes first
C8_Witness ==
    /\ call.fn = "sort_sources"
    /\ call.results # <<>>
    /\ Len(call.arg) = 2
    /\ call.arg[1].source = admin /\ call.arg[1].health.status = "down"
    /\ call.arg[2].source = bravo /\ call.arg[2].health.status = "up"
    /\ call.results[1][1].source = bravo
    /\ call.results[1][2].source = admin

(***************************************************************************)
(* Properties of the classifier.                                           *)
(***************************************************************************)
\* the keyword occurs in the text
Occurs(keyword, text) ==
    \E i \in 1..Len(text) :
        /\ i + Len(keyword) - 1 <= Len(text)
        /\ SubSeq(text, i, i + Len(keyword) - 1) = keyword

Keywords(list) == {list[i] : i \in 1..Len(list)}

\* the decision procedure of the specification, rule by rule; the text is
\* the title and the id, joined by a blank, in lower case
Decision(match, league) ==
    LET config == LEAGUE_CONFIGS[league]
        category == Lower(match.category)
        text == Lower(match.title \o <<" ">> \o match.id)
        nicknames == {k \in Keywords(config.team_keywords) : Occurs(k, text)}
        rule1 == category # <<>> /\ \A c \in Keywords(config.categories) : ~Occurs(c, category)
        rule2 == \E k \in Keywords(GLOBAL_EXCLUDED_KEYWORDS) \cup Keywords(config.exclude_keywords) :
                    Occurs(k, text)
        rule3 == \E k \in Keywords(config.brand_keywords) : Occurs(k, text)
        rule4 == Cardinality(nicknames) >= 2
        rule5 == Occurs(league, category) /\ Cardinality(nicknames) >= 1
    IN IF rule1 THEN FALSE
       ELSE IF rule2 THEN FALSE
       ELSE IF rule3 THEN TRUE
       ELSE IF rule4 THEN TRUE
       ELSE IF rule5 THEN TRUE
       ELSE FALSE

\* C9: for every match and every configured league is_league_match returns
\* what the ordered decision procedure of the specification returns; an
\* exclude keyword rejects even with a brand keyword or two nicknames.
C9_DecisionProcedure ==
    (/\ call.fn = "is_league_match"
     /\ call.results # <<>>
     /\ call.arg.league \in {nfl, nba, mlb, nhl}) =>
        call.results[1] = Decision(call.arg.match, call.arg.league)

\* "NCAA Lakers Celtics" in category Basketball was judged for the NBA and
\* rejected: the exclude keyword wins over two nicknames
C9_Witness ==
    /\ call.fn = "is_league_match"
    /\ call.results = <<FALSE>>
    /\ call.arg.league = nba
    /\ call.arg.match.category = <<"B", "a", "s", "k", "e", "t", "b", "a", "l", "l">>
    /\ call.arg.match.title = <<"N", "C", "A", "A", " ", "L", "a", "k", "e", "r", "s", " ", "C", "e", "l", "t", "i", "c", "s">>

\* C10: identify_match_league returns the first of nfl, nba, mlb, nhl that
\* is_league_match accepts, or None when none does; a second call on the
\* same match returns the same league whatever happened in between, and the
\* calls leave the caches as they were.
C10_FirstInPriorityOrder ==
    (call.fn = "identify_match_league") =>
        LET order == <<nfl, nba, mlb, nhl>>
            accepting == {i \in 1..4 : is_league_match(call.arg, order[i])}
            expected ==
                IF accepting = {} THEN NoLeague
                ELSE order[CHOOSE i \in accepting : \A j \in accepting : i <= j]
        IN /\ \A k \in 1..Len(call.results) : call.results[k] = expected
           /\ cache = EmptyCacheData
           /\ pageCache = NoEntry /\ indexCache = NoEntry /\ leadersCache = NoEntry
           /\ HealthIdle

\* a match that both the NBA and MLB accept was identified twice, with time
\* passing in between: NBA both times
C10_Witness ==
    /\ call.fn = "identify_match_league"
    /\ Len(call.results) = 2
    /\ ticks = 1
    /\ ~is_league_match(call.arg, nfl)
    /\ is_league_match(call.arg, nba)
    /\ is_league_match(call.arg, mlb)
    /\ call.results = <<nba, nba>>

(***************************************************************************)
(* Resilient fetch.                                                        *)
(***************************************************************************)
FetchCalls == DOMAIN net.calls

Failed(c) == \A k \in DOMAIN net.calls[c].attempts : ~IsSuccess(net.calls[c].attempts[k].kind)

\* the attempts of a fetch_json call, its return value and its exception
C11_AttemptsAndResult ==
    \A c \in FetchCalls :
        LET attempts == net.calls[c].attempts
        IN /\ Len(attempts) <= RETRY_COUNT
           /\ \A k \in DOMAIN attempts : IsSuccess(attempts[k].kind) => k = Len(attempts)
           /\ net.calls[c].ended = "returned" =>
                  /\ attempts # <<>>
                  /\ IsSuccess(attempts[Len(attempts)].kind)
                  /\ net.calls[c].value = attempts[Len(attempts)]
           /\ net.calls[c].ended = "raised" =>
                  /\ Len(attempts) = RETRY_COUNT
                  /\ Failed(c)
                  /\ net.calls[c].value = attempts[RETRY_COUNT]

\* a fetch_json call that has returned or raised does nothing more
C11_EndedIsOver ==
    \A c \in FetchCalls : net.calls[c].ended # "running" => net'.calls[c] = net.calls[c]

AllCallsEnded == \A c \in FetchCalls : net.calls[c].ended # "running"

\* C11: fetch_json always terminates: every call makes at most RETRY_COUNT
\* attempts; no attempt follows a successful one, and the call returns the
\* payload of that attempt; a call raises only after RETRY_COUNT failed
\* attempts, and raises the error of the last of them; every call ends.
C11_FetchJsonTerminates ==
    /\ []C11_AttemptsAndResult
    /\ [][C11_EndedIsOver]_vars
    /\ <>AllCallsEnded

\* one call raised after RETRY_COUNT failures and another returned the
\* payload of its second attempt
C11_Witness ==
    /\ \E c \in FetchCalls : net.calls[c].ended = "raised" /\ Len(net.calls[c].attempts) = RETRY_COUNT
    /\ \E c \in FetchCalls : net.calls[c].ended = "returned" /\ Len(net.calls[c].attempts) = 2

\* C12: a NotFound outcome is not retried: after an attempt answered with
\* HTTP 404, fetch_json neither sleeps nor makes another attempt for that
\* URL, and what the call raises is that 404.
C12_NotFoundNotRetried ==
    \A c \in FetchCalls :
        LET attempts == net.calls[c].attempts
        IN \A k \in DOMAIN attempts :
               attempts[k].kind = "http_404" =>
                   /\ k = Len(attempts)
                   /\ Len(net.calls[c].sleeps) < k
                   /\ net.calls[c].ended = "raised" => net.calls[c].value = attempts[k]

\* the call that came back from fetch_matches, when one did
Served == net.calls[Len(net.calls)]

C13_InListOrder ==
    /\ \A c \in FetchCalls : net.calls[c].base = c /\ c <= Len(net.bases)
    /\ \A c \in FetchCalls : c < Len(net.calls) => net.calls[c].ended = "raised"

C13_Failure ==
    net.ended = "raised" =>
        /\ Len(net.calls) = Len(net.bases)
        /\ \A c \in FetchCalls : net.calls[c].ended = "raised"
        /\ net.bases # <<>> => net.value = Served.value

\* C13 as stated: fetch_matches tries the bases in list order; it returns
\* the payload and the base of the first base that succeeds, and no later
\* base is contacted; it fails only when every base failed, with the error
\* of the last base tried.
C13_FirstAvailable_AsStated ==
    /\ C13_InListOrder
    /\ net.ended = "returned" =>
           /\ Served.ended = "returned"
           /\ net.from = Len(net.calls)
           /\ net.value = Served.value
    /\ C13_Failure

\* C13, amended: as above, and what is returned for the first base that
\* succeeds is its payload when that is a JSON list and the empty list when
\* it is any other JSON value.
C13_FirstAvailable ==
    /\ C13_InListOrder
    /\ net.ended = "returned" =>
           /\ Served.ended = "returned"
           /\ net.from = Len(net.calls)
           /\ Served.value.kind = "list" => net.value = Served.value
           /\ Served.value.kind # "list" => net.value.kind = "[]"
    /\ C13_Failure

\* the first base failed and the second answered with something that is not
\* a list
C13_Witness ==
    /\ Len(net.bases) = 2
    /\ net.calls[1].ended = "raised"
    /\ net.ended = "returned"
    /\ net.from = 2
    /\ Served.value.kind = "object"

(***************************************************************************)
(* The player index.                                                       *)
(***************************************************************************)
ResolveCalled == call.fn = "resolve_player_index" /\ call.results # <<>>

\* C14: season resolution in resolve_player_index: with an explicit season
\* only that season is tried; with season 'current' the candidates are
\* tried in the order of the upstream's list, a candidate is tried only
\* after every candidate before it failed with HTTP 404, and a candidate
\* that fails with anything else ends the resolution with that error.
C14_SeasonResolution ==
    ResolveCalled =>
        LET r == call.results[1]
            outcomes == call.arg.outcomes
        IN IF call.arg.season # current
           THEN /\ Len(r.tried) <= 1
                /\ \A j \in DOMAIN r.tried : r.tried[j] = SubSeq(SelectSeq(call.arg.season, IsDigit), 1, 4)
           ELSE /\ r.tried = SubSeq(call.arg.years, 1, Len(r.tried))
                /\ \A j \in DOMAIN r.tried :
                       /\ j < Len(r.tried) => outcomes[j] = "http_404"
                       /\ outcomes[j] \in {"http_500", "timeout"} =>
                              /\ r.ended = "raised"
                              /\ r.error = [kind |-> outcomes[j], at |-> j]

BuildCalled == call.fn = "build_player_index" /\ call.results # <<>>

\* the athlete refs of the teams whose roster request succeeds
RosterRefs(upstream) ==
    UNION {{upstream[i].roster.refs[j] : j \in DOMAIN upstream[i].roster.refs} :
               i \in {n \in DOMAIN upstream : upstream[n].roster.ok}}

\* C15: build_player_index makes one roster request per team ref; when some
\* of them raise it does not raise, and the athletes of the index are
\* exactly those of the teams whose roster request succeeded.
C15_PartialFailure ==
    BuildCalled =>
        LET r == call.results[1]
        IN /\ ~r.raised
           /\ Len(r.fetched) = Len(call.arg.upstream)
           /\ {r.athletes[j].ref : j \in DOMAIN r.athletes} = RosterRefs(call.arg.upstream)

RowsBuilding == call.fn = "player_rows"

PageCalled == call.fn = "players_page" /\ call.results # <<>>

\* the entries left after filtering: all of them, or those whose profile
\* has the asked position
Filtered(arg) ==
    IF Lower(arg.position) \in AllPositions
    THEN Athletes(arg.n)
    ELSE LET keep(entry) == /\ arg.profiles[entry.id] # NoPosition
                            /\ Upper(arg.profiles[entry.id]) = Upper(arg.position)
         IN [i \in 1..Len(SelectSeq(Athletes(arg.n), keep)) |->
                [SelectSeq(Athletes(arg.n), keep)[i] EXCEPT
                     !.position = arg.profiles[SelectSeq(Athletes(arg.n), keep)[i].id]]]

\* ceil(total / perPage)
Ceil(total, perPage) == CHOOSE k \in 0..total : k * perPage >= total /\ (k - 1) * perPage < total

\* C17: pagination applies to the entries left after filtering; perPage is
\* within [10, 200]; a page beyond the last is clamped to
\* max(1, ceil(total/perPage)) and the reported page is the clamped one;
\* the slice has at most perPage entries, which are exactly entries
\* (page-1)*perPage .. page*perPage-1 (from 0) of the filtered list.
C17_Pagination ==
    PageCalled =>
        LET r == call.results[1]
            filtered == Filtered(call.arg)
            asked == IF call.arg.page.ok /\ call.arg.page.n >= 1 THEN call.arg.page.n ELSE 1
            lastPage == IF Ceil(Len(filtered), r.perPage) >= 1 THEN Ceil(Len(filtered), r.perPage) ELSE 1
            from == (r.page - 1) * r.perPage
        IN /\ r.perPage \in 10..200
           /\ r.total = Len(filtered)
           /\ r.page = IF asked > lastPage THEN lastPage ELSE asked
           /\ Len(r.entries) <= r.perPage
           /\ Len(r.entries) = IF from + r.perPage <= r.total THEN r.perPage
                               ELSE IF from <= r.total THEN r.total - from ELSE 0
           /\ \A j \in DOMAIN r.entries : r.entries[j] = filtered[from + j]

\* page 4 of the quarterbacks is asked with perPage = 9: perPage becomes
\* 10, the page is clamped to the last one, which is not full
C17_Witness ==
    /\ PageCalled
    /\ call.arg.page = Number(4)
    /\ call.arg.perPage = Number(9)
    /\ call.arg.position = <<"q", "b">>
    /\ call.results[1].page \in 2..3
    /\ call.results[1].perPage = 10
    /\ Len(call.results[1].entries) \in 1..9

(***************************************************************************)
(* The game list.                                                          *)
(***************************************************************************)
GamesCalled == call.fn = "games" /\ call.results # <<>>

Built == call.results[1].built

\* the non-empty ids of a list of matches
IdsOf(matches) == {matches[i].id : i \in DOMAIN matches} \ {<<>>}

\* how many elements of a sequence satisfy a test
CountOf(seq, Test(_)) == Cardinality({i \in DOMAIN seq : Test(seq[i])})

\* C18 as stated: no game built from the 'all' set has a non-empty match id
\* that also appears in the live set of the snapshot; each match id present
\* in both sets appears exactly once in the result, as the entry built from
\* the live set.
C18_LiveEntryOnly_AsStated ==
    GamesCalled =>
        /\ \A j \in DOMAIN Built :
               Built[j].from = "all" => Built[j].matchId \notin IdsOf(call.arg.live)
        /\ \A id \in IdsOf(call.arg.live) \cap IdsOf(call.arg.all) :
               \E j \in DOMAIN Built :
                   /\ Built[j].matchId = id
                   /\ Built[j].from = "live"
                   /\ \A k \in DOMAIN Built : Built[k].matchId = id => k = j

\* the matches of a list that a view looks at: all of them in the
\* all-leagues view, those accepted for the league in a league view
OfView(matches) ==
    IF call.arg.league = all THEN matches
    ELSE LET accepted(match) == is_league_match(match, call.arg.league)
         IN SelectSeq(matches, accepted)

\* C18, amended: no game built from the 'all' set has a non-empty match id
\* that also appears in the live set of the view (the live set of the
\* snapshot in the all-leagues view, its matches accepted for the league in
\* a league view); each match id present in both sets of the view appears
\* in the result only as entries built from the live set, one for each
\* live match of that id that belongs to a configured league.
C18_LiveEntryOnly ==
    GamesCalled =>
        /\ \A j \in DOMAIN Built :
               Built[j].from = "all" => Built[j].matchId \notin IdsOf(OfView(call.arg.live))
        /\ \A id \in IdsOf(OfView(call.arg.live)) \cap IdsOf(OfView(call.arg.all)) :
               LET this(game) == game.matchId = id
                   known(match) == match.id = id /\ identify_match_league(match) # NoLeague
               IN /\ \A j \in DOMAIN Built : this(Built[j]) => Built[j].from = "live"
                  /\ CountOf(Built, this) = CountOf(OfView(call.arg.live), known)

\* the NFL view of a snapshot whose live and 'all' sets both hold the NFL
\* match of id a: the game list has it once, from the live set
C18_Witness ==
    /\ GamesCalled
    /\ call.arg.league = nfl
    /\ <<"a">> \in IdsOf(OfView(call.arg.live)) \cap IdsOf(OfView(call.arg.all))
    /\ Len(call.arg.all) = 2
    /\ Len(Built) = 2
    /\ Built[1].matchId = <<"a">>
    /\ Built[1].from = "live"
    /\ Built[2].matchId = <<>>

\* the entries the filter parameter keeps
Kept(game) ==
    CASE call.arg.filter = "live" -> game.isLive
      [] call.arg.filter = "upcoming" -> game.isUpcoming /\ ~game.isLive
      [] OTHER -> TRUE

LeagueOrder == <<nfl, nba, mlb, nhl>>

LeagueRank(league) == CHOOSE i \in DOMAIN LeagueOrder : LeagueOrder[i] = league

\* live first, then ascending timestamp
LiveFirst(g, h) ==
    /\ g.isLive \/ ~h.isLive
    /\ g.isLive = h.isLive => g.timestamp <= h.timestamp

\* C19: the games of /games are the games the filter keeps (the live ones,
\* the upcoming and not live ones, or all of them), each as often as the
\* builder returned it; in a league view they are ordered live first and
\* then by ascending timestamp; in the all-leagues view by league priority
\* (nfl, nba, mlb, nhl) and inside a league live first, then by timestamp.
C19_FilterAndOrder ==
    GamesCalled =>
        LET games == call.results[1].games
        IN /\ \A j \in DOMAIN games : Kept(games[j])
           /\ \A g \in Range(Built) \cup Range(games) :
                  LET same(x) == x = g
                  IN CountOf(games, same) = IF Kept(g) THEN CountOf(Built, same) ELSE 0
           /\ \A j, k \in DOMAIN games :
                  j < k =>
                      IF call.arg.league = all
                      THEN /\ LeagueRank(games[j].league) <= LeagueRank(games[k].league)
                           /\ games[j].league = games[k].league => LiveFirst(games[j], games[k])
                      ELSE LiveFirst(games[j], games[k])

\* the all-leagues view of an old NBA match and an NFL match, both live,
\* and a coming NFL match: the NFL games come first, the live one before
\* the coming one, and the builder had them in another order
C19_Witness ==
    /\ GamesCalled
    /\ call.arg.league = all
    /\ call.arg.filter = "all"
    /\ Len(call.results[1].games) = 3
    /\ call.results[1].games # Built
    /\ call.results[1].games[1].league = nfl /\ call.results[1].games[1].isLive
    /\ call.results[1].games[2].league = nfl /\ call.results[1].games[2].isUpcoming
    /\ call.results[1].games[3].league = nba

SlugCalled == call.fn = "find_game_by_slug" /\ call.results # <<>>

\* the sanitized slug is the game's own slug or its match id
OwnMatch(game, slug) ==
    sanitize_slug(slug) = sanitize_slug(game.slug) \/ sanitize_slug(slug) = sanitize_slug(game.matchId)

\* the sources of the game whose sanitized id is the sanitized slug
MatchingSources(game, slug) ==
    {i \in DOMAIN game.sources : sanitize_slug(game.sources[i].id) = sanitize_slug(slug)}

\* C20: find_game_by_slug compares the sanitized slug with a game's own
\* slug and matchId first and then with the ids of that game's sources,
\* game after game: on an own match the game itself is returned; on a
\* source match a copy whose slug and currentSource are those of the
\* source, the game of the list being left as it was; with no match, or an
\* empty slug, nothing is returned and /games/<slug> answers 404 not_found.
C20_FindBySlug ==
    SlugCalled =>
        LET r == call.results[1]
            games == call.arg.games
            slug == call.arg.slug
            hits == {g \in DOMAIN games :
                         OwnMatch(games[g], slug) \/ MatchingSources(games[g], slug) # {}}
        IN /\ r.games = games
           /\ r.match.found <=> slug # <<>> /\ hits # {}
           /\ ~r.match.found => r.status = 404 /\ r.error = "not_found"
           /\ r.match.found =>
                  LET game == games[r.match.at]
                  IN /\ r.status = 200
                     /\ r.match.at \in hits /\ \A g \in hits : r.match.at <= g
                     /\ OwnMatch(game, slug) => r.match.itself /\ r.match.game = game
                     /\ ~OwnMatch(game, slug) =>
                            /\ ~r.match.itself
                            /\ \E i \in MatchingSources(game, slug) :
                                   /\ r.match.game.slug = game.sources[i].id
                                   /\ r.match.game.currentSource = game.sources[i].source
                            /\ r.match.game.matchId = game.matchId
                            /\ r.match.game.sources = game.sources

\* the slug b is found through the second source of the second game: a
\* copy with the slug B and the source bravo is returned, and the game of
\* the list still has its own slug
C20_Witness ==
    /\ SlugCalled
    /\ call.arg.slug = <<"b">>
    /\ call.results[1].match.found
    /\ call.results[1].match.at = 2
    /\ ~call.results[1].match.itself
    /\ call.results[1].match.game.slug = <<"B">>
    /\ call.results[1].match.game.currentSource = bravo
    /\ call.results[1].games[2].slug = <<"a">>

(***************************************************************************)
(* Crash-safe persistence (SpecDisk).                                      *)
(***************************************************************************)
\* no file at the path, or one complete snapshot
SnapshotOrNothing(file) == ~file.exists \/ HoldsSnapshot(file)

\* the step is os.replace putting the complete new snapshot at the path
ReplacedByNew ==
    /\ proc.pc = "replace"
    /\ fs'[cache_path] = File(Dump(proc.data))

\* the step is GameCache(CACHE_PATH) being constructed
Loads == proc.pc = "init" /\ proc'.pc = "serving"

\* C21: at every step of _save, and across a crash at any step, the file at
\* the cache path goes from a complete snapshot only to the same complete
\* snapshot or to the complete new one, never to a cut or mixed text; and
\* the _load of the next start yields the snapshot the file holds
C21_CrashSafeSave ==
    /\ [][SnapshotOrNothing(fs[cache_path])
            => \/ fs'[cache_path] = fs[cache_path]
               \/ ReplacedByNew]_vars
    /\ [][Loads /\ HoldsSnapshot(fs[cache_path])
            => Dump(proc'.data) = fs[cache_path].text]_vars

\* the process was killed while json.dump was writing the temporary file of
\* a refresh, has started again and has loaded a complete snapshot
C21_Witness ==
    /\ proc.crashes >= 1
    /\ proc.updates >= 1
    /\ proc.pc = "serving"
    /\ fs[temp_path(cache_path)].exists
    /\ Len(fs[temp_path(cache_path)].text) \in 3..(Len(DataKeys) + 1)
    /\ HoldsSnapshot(fs[cache_path])
    /\ Dump(proc.data) = fs[cache_path].text

(***************************************************************************)
(* Loading a damaged snapshot file (SpecDisk).                             *)
(***************************************************************************)
\* the process is serving and no refresh has replaced the file it found
ServingWhatItFound == proc.pc = "serving" /\ proc.updates = 0

\* the cache holds no prior value: no matches, never fetched
NoPriorValue ==
    /\ proc.data["live"] = Array(0)
    /\ proc.data["all"] = Array(0)
    /\ proc.data["last_fetch"] = Integer(0)

\* C24: whatever file the process finds that holds no snapshot (none,
\* unreadable, no JSON, JSON that is no snapshot object), the cache starts
\* with no prior value and a request refreshes instead of failing
C24_LoadNeverFatal ==
    (ServingWhatItFound /\ ~HoldsSnapshot(fs[cache_path]))
        => /\ NoPriorValue
           /\ proc.request \in {"none", "refresh"}

(***************************************************************************)
(* Snapshots, locks and the network (SpecLocks).                           *)
(***************************************************************************)
\* the thread has begun the assignments of an update and not yet saved
Updating(t) ==
    /\ workers[t].did.op = "assign"
    /\ ~(workers[t].did.field = "last_error" /\ workers[t].did.val # <<None>>)

\* the thread's last snapshot() has returned
HasSnapshot(t) == workers[t].returned # NothingCopied

\* C22 as stated: every snapshot is the data exactly as one completed
\* update, or the initial state, left it
C22_NoTornReads_AsStated ==
    \A t \in RequestThreads :
        HasSnapshot(t) => workers[t].returned \in history.updates \cup {EmptyGameData}

\* C22: at most one update is in progress at a time, and every snapshot()
\* returns the five fields exactly as one completed update or one
\* completed mark_error left them (or as they were initially), never
\* fields of two different writes
C22_NoTornReads ==
    /\ Cardinality({t \in RequestThreads : Updating(t)}) <= 1
    /\ \A t \in RequestThreads :
         HasSnapshot(t) =>
            workers[t].returned \in history.updates \cup history.marks \cup {EmptyGameData}

\* a snapshot taken after the other thread's update and a later mark_error
C22_Witness ==
    /\ workers["r2"].returned =
          [EmptyGameData EXCEPT !.live = <<1>>, !.all = <<1>>, !.last_fetch = <<1>>,
                                !.last_source = <<"https://a">>, !.last_error = <<"timed out">>]
    /\ Updating("r1")

\* C29: a thread calls the network only while it holds no lock, and what a
\* thread does while it holds a lock is reading or replacing in-memory
\* state and, in update, saving the snapshot
C29_NoNetworkUnderLock ==
    \A t \in RequestThreads :
        /\ workers[t].did.op = "network" => workers[t].held = {}
        /\ workers[t].held # {} =>
              /\ workers[t].did.op \in {"read", "write", "copy", "assign", "save", "release"}
              /\ workers[t].did.op = "save" => workers[t].held = {"GAME_CACHE.lock"}

\* a thread is back from the upstream while the other one holds the lock of
\* the games cache and is assigning the fields of its update
C29_Witness ==
    /\ workers["r1"].did.op = "network"
    /\ holder["GAME_CACHE.lock"] = "r2"
    /\ Updating("r2")

\* C30: every read and every write of a process-wide cache is made by a
\* thread that holds the lock of that cache
C30_AccessUnderLock ==
    \A t \in RequestThreads :
        workers[t].did.op \in {"read", "write", "copy", "assign"}
            => LockOf(workers[t].did.on) \in workers[t].held

(***************************************************************************)
(* The pauses of fetch_json (SpecFetch).                                   *)
(***************************************************************************)
\* C27: fetch_json sleeps only between consecutive attempts: the pause
\* after failed attempt i (counted from 0) is BACKOFF_BASE_SEC * 2^i, no
\* pause follows the last allowed attempt, so a call that raises has slept
\* RETRY_COUNT - 1 times, and a call whose first attempt succeeds never sleeps
C27_SleepsOnlyBetweenAttempts ==
    \A c \in FetchCalls :
        LET attempts == net.calls[c].attempts
            sleeps == net.calls[c].sleeps
        IN /\ \A k \in DOMAIN sleeps : sleeps[k] = Backoff(k - 1)
           /\ Len(sleeps) <= RETRY_COUNT - 1
           /\ net.calls[c].ended = "raised" => Len(sleeps) = RETRY_COUNT - 1
           /\ (attempts # <<>> /\ IsSuccess(attempts[1].kind)) => sleeps = <<>>

(***************************************************************************)
(* The prober (SpecProbe).                                                 *)
(***************************************************************************)
\* check_source_health has returned the record of a probe
ProbeRecorded ==
    /\ call.fn = "check_source_health"
    /\ call.results # <<>>
    /\ IssuesProbe(call.arg.source, call.arg.slug)
    /\ call.results[1] # ProbeRaised

\* the answer to the last request a probe sends when none of them raises:
\* the one to GET if HEAD was answered 405 or not at all
FinalAnswer(behaviour) ==
    IF behaviour[1].status = 405 \/ behaviour[1].status = NoStatus
    THEN behaviour[2]
    ELSE behaviour[1]

\* C23: the status of every record a probe produces is: unknown without an
\* HTTP status, up for a status below 400, unknown for 401 and 403, down
\* for every other status from 400 on, taken on the probe's final HTTP
\* status, which the record carries
C23_HealthStatusMapping ==
    ProbeRecorded =>
        LET final == FinalAnswer(call.arg.behaviour).status
            record == call.results[1]
        IN /\ record.httpStatus = final
           /\ record.status \in {"up", "down", "unknown"}
           /\ final = NoStatus => record.status = "unknown"
           /\ (final # NoStatus /\ final < 400) => record.status = "up"
           /\ final \in {401, 403} => record.status = "unknown"
           /\ (final >= 400 /\ final \notin {401, 403}) => record.status = "down"

\* a HEAD answered 405 and a GET answered 403: the record is unknown
C23_Witness ==
    /\ ProbeRecorded
    /\ call.arg.behaviour[1].status = 405
    /\ call.arg.behaviour[2].status = 403
    /\ call.results[1].status = "unknown"

\* probe_url has returned or raised
Probed == call.fn = "probe_url" /\ call.results # <<>>

\* C28: probe_url sends HEAD first and at most one more request; the second
\* one, a ranged GET, is sent exactly when HEAD was answered 405 or gave
\* no HTTP status; what is reported is the status, latency and error of the
\* last request sent
C28_HeadThenOneGet ==
    Probed =>
        LET head == call.arg[1]
            probe == call.results[1]
            sent == probe.requests
        IN /\ sent[1] = ProbeRequest("HEAD")
           /\ Len(sent) <= 2
           /\ Len(sent) = 2 <=> (head.status = 405 \/ head.status = NoStatus)
           /\ Len(sent) = 2 => sent[2] = [method |-> "GET", range |-> "bytes=0-1024"]
           /\ ~probe.raised
           /\ probe.status = call.arg[Len(sent)].status
           /\ probe.latency_ms = call.arg[Len(sent)].latency_ms
           /\ probe.error = (IF call.arg[Len(sent)].exc = None THEN None ELSE "urlopen error")

(***************************************************************************)
(* The budget of a request (SpecHealth).                                   *)
(***************************************************************************)
\* the budget count before and after each source of the last call
CountTrace == <<last.count0>> \o last.counts

\* the step is an annotate_sources call on the budget of the request
AnnotatesWithBudget == hreq.pc = "health" /\ hreq'.pc = "games"

\* C26: over the annotate_sources calls that share one budget the count
\* never increases and never becomes negative: not from one source to the
\* next within a call, and not from one call to the next; a budget of 0
\* and more uncached sources than budget included
C26_BudgetMonotone ==
    /\ [](\A k \in 1..Len(last.counts) :
             CountTrace[k + 1] <= CountTrace[k] /\ CountTrace[k + 1] >= 0)
    /\ [][AnnotatesWithBudget =>
             /\ last'.count0 = hreq.count
             /\ hreq'.count <= hreq.count
             /\ hreq'.count >= 0
             /\ (last'.counts # <<>> => hreq'.count = last'.counts[Len(last'.counts)])]_vars

\* two sources without a cached record on a budget of 1: the count goes to
\* 0 with the first and stays there
C26_Witness ==
    /\ last.count0 = 1
    /\ last.clean
    /\ Len(last.sources) = 2
    /\ last.counts = <<0, 0>>
    /\ hreq.count = 0

(***************************************************************************)
(* The budgets of concurrent requests (SpecBudget).                        *)
(***************************************************************************)
\* how many check_source_health calls the request of thread t has made
OwnChecks(t) == Cardinality({k \in DOMAIN inflight[t].log : inflight[t].log[k] = "probed"})

\* the thread is in apply_health_to_games
InHealth(t) == inflight[t].pc \in {"lookup", "probing"}

\* the record of the source thread t is at is in the health cache, unexpired
RecordVisible(t) ==
    /\ inflight[t].pc = "lookup"
    /\ inflight[t].i <= Len(inflight[t].sources)
    /\ HealthCacheHas(healthCache,
                      HealthKey(inflight[t].sources[inflight[t].i].source,
                                inflight[t].sources[inflight[t].i].id), now)

\* C25: every request with health starts with a budget of its own of
\* MAX_HEALTH_CHECKS, which only its own checks reduce, whatever a
\* concurrent request probes; and a record any request has put into the
\* health cache is served to the others without a probe and without cost
C25_BudgetPerRequest ==
    /\ [](\A t \in RequestThreads :
            inflight[t].pc # "idle" => budget[t] = MAX_HEALTH_CHECKS - OwnChecks(t))
    /\ [][\A t \in RequestThreads :
            (RecordVisible(t) /\ inflight'[t] # inflight[t])
                => /\ inflight'[t].log = Append(inflight[t].log, "cached")
                   /\ budget'[t] = budget[t]]_vars

\* both requests are in apply_health_to_games; r1 has probed the source and
\* paid for it, r2 got r1's record from the cache and still has its whole
\* budget
C25_Witness ==
    /\ InHealth("r1") /\ InHealth("r2")
    /\ inflight["r1"].sources = inflight["r2"].sources
    /\ inflight["r1"].log = <<"probed">>
    /\ inflight["r2"].log = <<"cached">>
    /\ MAX_HEALTH_CHECKS = 1
    /\ budget["r1"] = 0
    /\ budget["r2"] = 1

(***************************************************************************)
(* Concurrent refreshes and the registry of standings caches (SpecLocks).  *)
(***************************************************************************)
\* C35: the matches GAME_CACHE holds are never replaced by matches the
\* upstream answered with earlier: under concurrent refreshes the number of
\* the installed fetch never goes down
C35_PayloadNeverRegresses == [][shared'.installed >= shared.installed]_vars

\* C38: for one (league, season) key at most one StandingsCache is ever
\* constructed, whatever the interleaving of get_standings_cache calls
C38_OneStandingsCachePerKey == shared.constructed <= 1

(***************************************************************************)
(* Failed refreshes and failed saves (SpecDisk).                           *)
(***************************************************************************)
\* the fields of GameCache.data a refresh fetches
PayloadKeys == {"live", "all", "last_fetch", "last_source"}

\* the last request has returned to its caller
RequestReturned == proc.pc = "serving" /\ proc.request = "none" /\ proc.returned.answered

\* the last request's refresh failed: build_match_cache returned from its
\* except branch (stale, or not from the cache at all)
RefreshHasFailed == RequestReturned /\ (proc.returned.stale \/ ~proc.returned.from_cache)

\* C32: the files change only inside update; and a request whose refresh
\* failed has written nothing to the disk and has left live, all,
\* last_fetch and last_source as they were when it took its snapshot
C32_FailedRefreshChangesOnlyLastError ==
    /\ [][fs' # fs => proc.pc \in {"open", "dump", "replace"}]_vars
    /\ [](RefreshHasFailed =>
            /\ ~proc.wrote
            /\ \A k \in PayloadKeys : proc.data[k] = proc.snapshot[k])

\* C36: whatever a request returned, the cache holds the same live, all,
\* last_fetch and last_source afterwards: a refresh whose save failed has
\* left the cache as it was before the refresh
C36_RefreshAndPersistTogether ==
    RequestReturned => \A k \in PayloadKeys : proc.data[k] = proc.returned.snapshot[k]

(***************************************************************************)
(* What a check costs and what the health cache holds (SpecHealth).        *)
(***************************************************************************)
\* what the budget count went down by at source i of the last call
SpentAt(i) == CountTrace[i] - CountTrace[i + 1]

\* C37: in an annotate_sources call on the budget of the request the count
\* goes down by one at each source a network probe is issued for and stays
\* as it is at every other source, a source whose name or id sanitizes to
\* nothing included
C37_BudgetSpentPerProbe ==
    \A i \in 1..Len(last.counts) : SpentAt(i) = IF last.probed[i] THEN 1 ELSE 0

\* the key of source i of the last call
KeyAt(i) == HealthKey(last.sources[i].source, last.sources[i].id)

\* source i of the last call got the record the cache held for its key
RecordServed(i) == ~last.synthetic[i] /\ SpentAt(i) = 0

\* C39: no record of the health cache is the budget-exhausted one; a source
\* annotated with it has no record stored for its key by that, and was met
\* with no budget left; a source served from the cache got a record no
\* older than HEALTH_TTL_SEC; and a source met with budget left and no
\* unexpired record under its key is checked and the result stored
C39_HealthCacheHoldsChecksOnly ==
    /\ [](\A key \in DOMAIN healthCache : healthCache[key].payload # BudgetExhaustedPayload)
    /\ [][AnnotatesWithBudget =>
            \A i \in 1..Len(last'.sources) :
                /\ last'.synthetic[i] =>
                      /\ ~HealthCacheHas(healthCache', KeyAt(i)', now)
                      /\ CountTrace'[i] = 0
                /\ RecordServed(i)' =>
                      /\ KeyAt(i)' \in DOMAIN healthCache'
                      /\ now - healthCache'[KeyAt(i)'].checked_at <= HEALTH_TTL_SEC
                /\ (/\ CountTrace'[i] > 0
                    /\ ~HealthCacheHas(healthCache, KeyAt(i)', now)
                    /\ \A j \in 1..(i - 1) : KeyAt(j)' # KeyAt(i)') =>
                      /\ SpentAt(i)' = 1
                      /\ healthCache'[KeyAt(i)'].checked_at = now
                      /\ healthCache'[KeyAt(i)'].payload # BudgetExhaustedPayload]_vars

\* a request with a budget of one meets two sources: the record of the
\* first is HEALTH_TTL_SEC old to the second and is served from the cache,
\* and the second, which has no record, is checked on the budget left
C39_Witness ==
    /\ Len(last.sources) = 2
    /\ last.count0 = 1
    /\ last.counts = <<1, 0>>
    /\ RecordServed(1)
    /\ KeyAt(1) \in DOMAIN healthCache
    /\ now - healthCache[KeyAt(1)].checked_at = HEALTH_TTL_SEC
    /\ last.probed[2]
    /\ hreq.pc = "games"

(***************************************************************************)
(* The flags of a game (SpecFlags).                                        *)
(***************************************************************************)
\* how many of the flags isLive, isUpcoming, isEnded the game has set
FlagsSet(game) ==
    Cardinality({f \in {"isLive", "isUpcoming", "isEnded"} :
                    \/ f = "isLive" /\ game.isLive
                    \/ f = "isUpcoming" /\ game.isUpcoming
                    \/ f = "isEnded" /\ game.isEnded})

\* C40: every game a request builds has at most one of isLive, isUpcoming
\* and isEnded set; a match of the non-live set is never live; a match of
\* the live set is live only while the clock of the request is at most
\* LIVE_MAX_AGE_SEC past its timestamp; and the flags are those of the
\* timestamp against the clock of that request, whatever earlier requests
\* made of the same match
C40_FlagsFromClock ==
    call.fn = "parse_match" =>
        \A k \in 1..Len(call.results) :
            LET game == call.results[k].game
                age_ms == call.results[k].at - game.timestamp
            IN /\ FlagsSet(game) <= 1
               /\ ~call.arg.is_live => ~game.isLive
               /\ game.isLive => age_ms <= LIVE_MAX_AGE_SEC * 1000
               /\ game.isLive <=> (call.arg.is_live /\ age_ms <= LIVE_MAX_AGE_SEC * 1000)
               /\ game.isUpcoming <=> (~game.isLive /\ age_ms < 0)
               /\ game.isEnded <=> (~game.isLive /\ age_ms >= ENDED_GRACE_SEC * 1000)
               /\ call.arg.match.date # 0 => game.timestamp = call.arg.match.date

\* one match of the live set read three times: live at first, neither live
\* nor ended once LIVE_MAX_AGE_SEC has passed, ended after the grace period
C40_Witness ==
    /\ call.fn = "parse_match"
    /\ call.arg.is_live
    /\ Len(call.results) = 3
    /\ call.results[1].game.isLive
    /\ FlagsSet(call.results[2].game) = 0
    /\ call.results[3].game.isEnded

(***************************************************************************)
(* Serving from a cache leaves the cache alone (Spec).                     *)
(***************************************************************************)
\* the step is thread t answering its request from the cache of its route
\* without going to the upstream
AnswersFromCache(t) ==
    /\ th[t].pc \in {"idle", "done"}
    /\ th'[t] # th[t]
    /\ th'[t].pc = "done"
    /\ th'[t].fromCache

\* C31: a request answered from a cache leaves every stored entry as it
\* was stored: the snapshot, the /players page with its meta, the player
\* index and the leaders payload
C31_CacheHitLeavesEntry ==
    [][(\E t \in Threads : AnswersFromCache(t)) =>
            /\ cache' = cache
            /\ pageCache' = pageCache
            /\ indexCache' = indexCache
            /\ leadersCache' = leadersCache]_vars

(***************************************************************************)
(* The athletes of the index, one entry each (SpecPlayers).                *)
(***************************************************************************)
\* where "/athletes/" followed by a digit begins in the ref
AthleteIdStarts(ref) ==
    LET prefix == <<"/">> \o athletes \o <<"/">>
    IN {p \in 1..Len(ref) :
            /\ p + Len(prefix) <= Len(ref)
            /\ SubSeq(ref, p, p + Len(prefix) - 1) = prefix
            /\ IsDigit(ref[p + Len(prefix)])}

\* the key of an athlete: the digits after /athletes/ in its reference, or
\* the reference when there are none
AthleteKey(ref) ==
    IF AthleteIdStarts(ref) = {} THEN ref
    ELSE LET p == CHOOSE q \in AthleteIdStarts(ref) : \A o \in AthleteIdStarts(ref) : q <= o
             from == p + Len(athletes) + 2
             to == CHOOSE e \in from..Len(ref) :
                       /\ \A j \in from..e : IsDigit(ref[j])
                       /\ e = Len(ref) \/ ~IsDigit(ref[e + 1])
         IN SubSeq(ref, from, to)

\* C34: whatever order the roster requests complete in, no two entries of
\* the index have the same key, and every athlete a roster lists has
\* exactly one entry
C34_OneEntryPerAthlete ==
    BuildCalled =>
        LET entries == call.results[1].athletes
            listed == {AthleteKey(normalize_core_ref(ref)) : ref \in RosterRefs(call.arg.upstream)}
        IN /\ \A j, k \in DOMAIN entries :
                  j # k => AthleteKey(entries[j].ref) # AthleteKey(entries[k].ref)
           /\ \A key \in listed :
                  Cardinality({j \in DOMAIN entries : AthleteKey(entries[j].ref) = key}) = 1

(***************************************************************************)
(* The size of the worker pools (SpecPool).                                *)
(***************************************************************************)
\* C33: the pool of a fan-out has min(PLAYER_FETCH_WORKERS, number of
\* items) workers and at least one, and never more tasks of the fan-out are
\* running than the pool has workers: never more than PLAYER_FETCH_WORKERS,
\* however many items there are
C33_PoolBounded ==
    (call.fn = "pool" /\ call.max_workers > 0) =>
        /\ call.max_workers >= 1
        /\ call.max_workers = min(PLAYER_FETCH_WORKERS, call.arg.items)
        /\ call.threads <= call.max_workers
        /\ call.running <= call.max_workers
        /\ call.running <= PLAYER_FETCH_WORKERS

\* more items than PLAYER_FETCH_WORKERS, every worker busy and tasks
\* waiting in the queue
C33_Witness ==
    /\ call.fn = "pool"
    /\ call.arg.items > PLAYER_FETCH_WORKERS
    /\ call.running = PLAYER_FETCH_WORKERS
    /\ Queued > 0

====
